---- MODULE Spec2Model ----
(***************************************************************************)
(* A state-machine model of the wigma collaboration relay                  *)
(* (backend/ws-server): the wire codec, the room and the room manager, the *)
(* token verifier, the persistence controller and the per-connection       *)
(* handlers of WsServer.                                                   *)
(*                                                                         *)
(* Spec         the connection path: open / text / binary / close handlers *)
(*              on the single event loop.                                  *)
(* SpecPersist  the persistence controller alone: persist_update calls and *)
(*              a compact() running step by step beside them.              *)
(* SpecStoreUp  SpecPersist with a store that answers every request.       *)
(* SpecOrder    the relay and the store over several numbered frames.      *)
(* SpecJoin     a join that passed its gates, effect by effect.            *)
(* SpecAccess   joins under every answer of the store to the access query. *)
(* SpecControl  control messages of every shape.                           *)
(* SpecRegistry the RoomManager called from two threads.                   *)
(* SpecSweep    the join and close handlers beside a for_each sweep.       *)
(* SpecJwks     the verifier from the loading of its key on.               *)
(* SpecLoad, SpecCodec, SpecRoom, SpecVerify                               *)
(*              load_state, the binary codec, one Room and the verifier,   *)
(*              each called on its own.                                    *)
(***************************************************************************)
EXTENDS Integers, Sequences, FiniteSets, TLC

VARIABLES
  open,            \* handles of the sockets the transport holds open
  data,            \* PerSocketData of each handle
  rooms,           \* RoomManager::rooms_ : project id -> Room::peers_
  snapshots,       \* backing store: yjs_snapshots row of each project
  updates,         \* backing store: yjs_updates rows of each project, by id
  update_counts,   \* YjsPersistence::update_counts_
  ec_pubkey,       \* JwtVerifier::ec_pubkey_
  legacy_secret,   \* JwtVerifier::legacy_secret_
  now,             \* system clock, epoch seconds
  cjob,            \* the compact() call in progress, if any
  pjob,            \* the persist_update() call in progress beside it, if any
  ev,              \* the last event handled, with its input
  sent,            \* what the last handler sent, per handle, in order
  calls,           \* the collaborator calls the last handler made, in order
  wire,            \* the frames relayed to each handle's socket so far, in order
  mutex_,          \* RoomManager::mutex_ : the thread that holds it, if any
  callers          \* the RoomManager call each thread is in, if any

vars == <<open, data, rooms, snapshots, updates, update_counts,
          ec_pubkey, legacy_secret, now, cjob, pjob, ev, sent, calls, wire,
          mutex_, callers>>

connVars == <<open, data, rooms>>
storeVars == <<snapshots, updates, update_counts>>
verifierVars == <<ec_pubkey, legacy_secret, now>>
jobVars == <<cjob, pjob>>
traceVars == <<ev, sent, calls>>
lockVars == <<mutex_, callers>>

(***************************************************************************)
(* Bounds of the model.                                                    *)
(***************************************************************************)
NumConns == 3
max_rooms == 2
MaxPersists == 1
MaxStored == 2
MaxPayloadLen == 2
MaxExp == 2
MaxClock == 3
MaxFrames == 2

Conns == 1..NumConns
NullWs == 0
ProjectIds == {"P1", "P2", "P3"}
UserIds == {"u1", "u2"}

(***************************************************************************)
(* Wire codec (protocol/message_codec).                                    *)
(***************************************************************************)
YjsSync == 1
YjsUpdate == 2
Awareness == 3

\* Mutant: the tag byte is left out.
encode_binary_untagged(type, bytes) == bytes

encode_binary(type, bytes) == <<type>> \o bytes

\* Mutant: a frame of the tag alone is taken as invalid.
decode_binary_needs_payload(frame) ==
  IF Len(frame) < 2
    THEN [type |-> YjsSync, payload |-> <<>>, payload_len |-> 0, valid |-> FALSE]
    ELSE [type |-> frame[1],
          payload |-> SubSeq(frame, 2, Len(frame)),
          payload_len |-> Len(frame) - 1,
          valid |-> TRUE]

\* Mutant: a tag outside the known ones is read as Sync.
decode_binary_aliases(frame) ==
  IF Len(frame) < 1
    THEN [type |-> YjsSync, payload |-> <<>>, payload_len |-> 0, valid |-> FALSE]
    ELSE [type |-> IF frame[1] \in {YjsSync, YjsUpdate, Awareness}
                     THEN frame[1] ELSE YjsSync,
          payload |-> SubSeq(frame, 2, Len(frame)),
          payload_len |-> Len(frame) - 1,
          valid |-> TRUE]

decode_binary(frame) ==
  IF Len(frame) < 1
    THEN [type |-> YjsSync, payload |-> <<>>, payload_len |-> 0, valid |-> FALSE]
    ELSE [type |-> frame[1],
          payload |-> SubSeq(frame, 2, Len(frame)),
          payload_len |-> Len(frame) - 1,
          valid |-> TRUE]

\* Inbound binary frames: the empty frame, an Update frame, a Sync frame, an
\* Awareness frame of the tag alone, and a frame with an unknown tag.
Frames == { <<>>, <<2, 170, 187>>, <<1, 170>>, <<3>>, <<7, 170>> }

\* Inbound text frames, as the JSON value they parse to. A field of an object is
\* a string, Absent, or NonString (a number, an array, ...).
Absent == "<absent>"
NonString == "<non-string>"

JsonObject(type, projectId, token) ==
  [json |-> "object", type |-> type, projectId |-> projectId, token |-> token]

\* json::value(key, ""): the default for an absent key; a type_error for a value
\* that is no string.
JsonValueThrows(v) == v = NonString
JsonValue(v) == IF v = Absent THEN "" ELSE v

\* Mutant: a message without a type is read as a ping.
decode_control_default_ping(text) ==
  IF text.json # "object"
     \/ JsonValueThrows(text.type)
     \/ JsonValueThrows(text.projectId)
     \/ JsonValueThrows(text.token)
    THEN [type |-> "", project_id |-> "", token |-> "", valid |-> FALSE]
    ELSE [type |-> IF text.type = Absent THEN "ping" ELSE text.type,
          project_id |-> JsonValue(text.projectId),
          token |-> JsonValue(text.token),
          valid |-> TRUE]

decode_control(text) ==
  IF text.json # "object"
     \/ JsonValueThrows(text.type)
     \/ JsonValueThrows(text.projectId)
     \/ JsonValueThrows(text.token)
    THEN [type |-> "", project_id |-> "", token |-> "", valid |-> FALSE]
    ELSE [type |-> JsonValue(text.type),
          project_id |-> JsonValue(text.projectId),
          token |-> JsonValue(text.token),
          valid |-> JsonValue(text.type) # ""]

\* Mutant: the reply echoes the request's type.
encode_pong_echo == [op |-> "TEXT", type |-> "ping"]

encode_pong == [op |-> "TEXT", type |-> "pong"]
encode_error(code, message) ==
  [op |-> "TEXT", type |-> "error", code |-> code, message |-> message]
encode_joined(user_id, peers) ==
  [op |-> "TEXT", type |-> "joined", userId |-> user_id, peers |-> peers]
encode_peer_joined(user_id) == [op |-> "TEXT", type |-> "peer-joined", userId |-> user_id]
encode_peer_left(user_id) == [op |-> "TEXT", type |-> "peer-left", userId |-> user_id]
BinaryMsg(bytes) == [op |-> "BINARY", bytes |-> bytes]

(***************************************************************************)
(* Room (rooms/room): peers_ is a map from handle to user id.              *)
(***************************************************************************)
EmptyPeers == [w \in {} |-> ""]

add_peer_inserted(peers, ws) == ws \notin DOMAIN peers

\* Mutant: insert_or_assign instead of emplace.
add_peer_overwrites(peers, ws, user_id) ==
  [w \in DOMAIN peers \cup {ws} |-> IF w = ws THEN user_id ELSE peers[w]]

add_peer(peers, ws, user_id) ==
  IF add_peer_inserted(peers, ws)
    THEN [w \in DOMAIN peers \cup {ws} |-> IF w = ws THEN user_id ELSE peers[w]]
    ELSE peers

\* Mutant: the handle is not erased.
remove_peer_keeps(peers, ws) == peers

\* Mutant: every handle of the leaving handle's user is erased.
remove_peer_by_user(peers, ws) ==
  [w \in {x \in DOMAIN peers : ws \in DOMAIN peers => peers[x] # peers[ws]} |->
     peers[w]]

remove_peer(peers, ws) == [w \in DOMAIN peers \ {ws} |-> peers[w]]

room_empty(peers) == DOMAIN peers = {}

\* get_peer_ids: one entry per peer, in the map's iteration order, which the
\* container leaves unspecified; kept as the number of entries per user id.
\* Mutant: one entry per user id, however many connections it has.
get_peer_ids_distinct(peers) ==
  [u \in UserIds |-> IF \E w \in DOMAIN peers : peers[w] = u THEN 1 ELSE 0]

get_peer_ids(peers) ==
  [u \in UserIds |-> Cardinality({w \in DOMAIN peers : peers[w] = u})]

\* Mutant: the sender is not excluded.
broadcast_targets_all(peers, sender) == DOMAIN peers

\* The peers broadcast / broadcast_text call send_fn for.
broadcast_targets(peers, sender) == {w \in DOMAIN peers : w # sender}

broadcast(out, peers, sender, msg) ==
  [w \in Conns |-> IF w \in broadcast_targets(peers, sender)
                     THEN Append(out[w], msg) ELSE out[w]]

Send(out, ws, msg) == [out EXCEPT ![ws] = Append(@, msg)]

NoneSent == [w \in Conns |-> <<>>]

(***************************************************************************)
(* RoomManager (rooms/room_manager).                                       *)
(***************************************************************************)
\* Mutant: the limit is compared with > instead of >=.
room_limit_off_by_one(rms) == Cardinality(DOMAIN rms) > max_rooms

room_limit_reached(rms) == Cardinality(DOMAIN rms) >= max_rooms

\* Mutant: the limit is checked before the lookup.
get_or_create_limit_first(rms, project_id) ==
  IF room_limit_reached(rms)
    THEN [found |-> FALSE, rooms |-> rms]
    ELSE [found |-> TRUE,
          rooms |-> [p \in DOMAIN rms \cup {project_id} |->
                       IF p \in DOMAIN rms THEN rms[p] ELSE EmptyPeers]]

\* Mutant: the room is put in the map before the limit is checked.
get_or_create_inserts_first(rms, project_id) ==
  IF project_id \in DOMAIN rms
    THEN [found |-> TRUE, rooms |-> rms]
    ELSE [found |-> ~room_limit_reached(rms),
          rooms |-> [p \in DOMAIN rms \cup {project_id} |->
                       IF p = project_id THEN EmptyPeers ELSE rms[p]]]

\* get_or_create: the room returned (found = FALSE for nullptr) and the map after.
get_or_create(rms, project_id) ==
  IF project_id \in DOMAIN rms
    THEN [found |-> TRUE, rooms |-> rms]
    ELSE IF room_limit_reached(rms)
      THEN [found |-> FALSE, rooms |-> rms]
      ELSE [found |-> TRUE,
            rooms |-> [p \in DOMAIN rms \cup {project_id} |->
                         IF p = project_id THEN EmptyPeers ELSE rms[p]]]

get(rms, project_id) == project_id \in DOMAIN rms

\* Mutant: the empty room is left in the map.
remove_if_empty_never(rms, project_id) == rms

\* Mutant: the room is erased whether or not it has peers.
remove_if_empty_unconditional(rms, project_id) ==
  [p \in DOMAIN rms \ {project_id} |-> rms[p]]

remove_if_empty(rms, project_id) ==
  IF project_id \in DOMAIN rms /\ room_empty(rms[project_id])
    THEN [p \in DOMAIN rms \ {project_id} |-> rms[p]]
    ELSE rms

room_count(rms) == Cardinality(DOMAIN rms)

\* for_each: fn is called on every room of the map.
for_each(rms) == DOMAIN rms

\* The threads that call into the RoomManager: the event loop, and the thread
\* of a periodic task.
Threads == {"loop", "task"}
NoThread == "none"
NoCall == [pc |-> "idle", op |-> "", project_id |-> "", seen |-> <<>>]

\* Mutant: the lock is handed out whoever holds it.
mutex_free_always(m) == TRUE

\* std::lock_guard's constructor returns once nobody holds the mutex.
mutex_free(m) == m = NoThread

(***************************************************************************)
(* JwtVerifier (auth/jwt_verifier).  A token is an opaque string; what its *)
(* three segments decode to is given by TokenParts:                        *)
(*   dots     the number of '.' separators found (2 = three segments)      *)
(*   header   whether the header decodes and parses, and its "alg" field   *)
(*   sig      the decoded signature: its size, the EC key under which it   *)
(*            is a valid ECDSA signature of the signing input, the secret  *)
(*            whose HMAC-SHA256 of the signing input it equals             *)
(*   payload  whether the payload decodes and parses, and its fields       *)
(***************************************************************************)
NoKey == "none"

TokenParts(tok) ==
  CASE tok = "tokU1" ->
         [dots |-> 2,
          header |-> [parsable |-> TRUE, alg |-> "ES256"],
          sig |-> [size |-> 64, ecdsa_key |-> "K1", hmac_secret |-> NoKey],
          payload |-> [parsable |-> TRUE, sub |-> "u1", role |-> "authenticated",
                       exp |-> 0, iat |-> 1]]
    [] tok = "tokU2" ->
         [dots |-> 2,
          header |-> [parsable |-> TRUE, alg |-> "HS256"],
          sig |-> [size |-> 32, ecdsa_key |-> NoKey, hmac_secret |-> "S1"],
          payload |-> [parsable |-> TRUE, sub |-> "u2", role |-> "authenticated",
                       exp |-> 9, iat |-> 1]]
    [] tok = "tokBad" ->
         [dots |-> 2,
          header |-> [parsable |-> TRUE, alg |-> "HS256"],
          sig |-> [size |-> 32, ecdsa_key |-> NoKey, hmac_secret |-> "S2"],
          payload |-> [parsable |-> TRUE, sub |-> "u1", role |-> "authenticated",
                       exp |-> 0, iat |-> 1]]
    [] OTHER ->
         [dots |-> 0,
          header |-> [parsable |-> FALSE, alg |-> Absent],
          sig |-> [size |-> 0, ecdsa_key |-> NoKey, hmac_secret |-> NoKey],
          payload |-> [parsable |-> FALSE, sub |-> "", role |-> "",
                       exp |-> 0, iat |-> 0]]

Tokens == {"tokU1", "tokU2", "tokBad"}

NoClaims == [ok |-> FALSE, sub |-> "", role |-> "", exp |-> 0, iat |-> 0]

\* Mutant: without a readable alg the token is taken as of unknown algorithm.
header_alg_unknown(hdr) ==
  IF hdr.parsable /\ ~JsonValueThrows(hdr.alg) /\ hdr.alg # Absent
    THEN hdr.alg ELSE ""

header_alg(hdr) ==
  IF hdr.parsable /\ ~JsonValueThrows(hdr.alg)
    THEN (IF hdr.alg = Absent THEN "HS256" ELSE hdr.alg)
    ELSE "HS256"

verify_es256(sig, key) ==
  /\ key # NoKey
  /\ sig.size = 64
  /\ sig.ecdsa_key = key

verify_hs256(sig, secret) ==
  /\ secret # ""
  /\ sig.size = 32
  /\ sig.hmac_secret = secret

\* Whether the try block of decode_claims ends in its catch: the payload does
\* not parse, or "sub" or "role" is present and no string.
decode_claims_throws(payload) ==
  \/ ~payload.parsable
  \/ JsonValueThrows(payload.sub)
  \/ JsonValueThrows(payload.role)

\* Mutant: a token is expired from the second exp on.
decode_claims_expired_at_exp(payload, clock) ==
  IF decode_claims_throws(payload) THEN NoClaims
  ELSE IF payload.exp > 0 /\ clock >= payload.exp THEN NoClaims
  ELSE IF JsonValue(payload.sub) = "" THEN NoClaims
  ELSE [ok |-> TRUE, sub |-> JsonValue(payload.sub), role |-> JsonValue(payload.role),
        exp |-> payload.exp, iat |-> payload.iat]

decode_claims(payload, clock) ==
  IF decode_claims_throws(payload) THEN NoClaims
  ELSE IF payload.exp > 0 /\ clock > payload.exp THEN NoClaims
  ELSE IF JsonValue(payload.sub) = "" THEN NoClaims
  ELSE [ok |-> TRUE, sub |-> JsonValue(payload.sub), role |-> JsonValue(payload.role),
        exp |-> payload.exp, iat |-> payload.iat]

\* Mutant: both checks are tried whatever the header says.
signature_valid_either(alg, sig, key, secret) ==
  verify_es256(sig, key) \/ verify_hs256(sig, secret)

signature_valid(alg, sig, key, secret) ==
  IF alg = "ES256" THEN verify_es256(sig, key)
  ELSE IF alg = "HS256" THEN verify_hs256(sig, secret)
  ELSE verify_es256(sig, key) \/ verify_hs256(sig, secret)

\* verify, from the segments the token splits and decodes into.
verify_segments(t, clock, key, secret) ==
  IF t.dots < 2 THEN NoClaims
  ELSE IF ~signature_valid(header_alg(t.header), t.sig, key, secret) THEN NoClaims
  ELSE decode_claims(t.payload, clock)

verify(tok, clock, key, secret) ==
  verify_segments(TokenParts(tok), clock, key, secret)

\* A key of the JWKS document.  x and y are what the coordinate decodes to:
\* "c32" 32 bytes of a point on the curve, "off32" 32 bytes of no point,
\* "c31" 31 bytes; Absent reads as the empty string.
Jwk(kty, crv, x, y) == [kty |-> kty, crv |-> crv, x |-> x, y |-> y]

\* Mutant: the coordinates are not measured.
build_ec_key_any_size(x_bytes, y_bytes) ==
  IF x_bytes = "off32" \/ y_bytes = "off32" THEN NoKey ELSE "K1"

\* build_ec_key: nullptr for coordinates that are not 32 bytes each, and when
\* the library refuses the point.
build_ec_key(x_bytes, y_bytes) ==
  IF x_bytes = "c32" /\ y_bytes = "c32" THEN "K1" ELSE NoKey

\* The loop of load_jwks over the keys: a read of a member that is no string
\* throws and ends in the catch; the first EC P-256 key with both coordinates
\* is built and ends the loop whether or not it could be built.
RECURSIVE find_ec_key(_)
find_ec_key(keys) ==
  IF keys = <<>> THEN NoKey
  ELSE LET key == Head(keys) IN
    IF JsonValueThrows(key.kty) \/ JsonValueThrows(key.crv) THEN NoKey
    ELSE IF JsonValue(key.kty) = "EC" /\ JsonValue(key.crv) = "P-256"
      THEN IF JsonValueThrows(key.x) \/ JsonValueThrows(key.y) THEN NoKey
           ELSE IF JsonValue(key.x) = "" \/ JsonValue(key.y) = ""
             THEN find_ec_key(Tail(keys))
             ELSE build_ec_key(key.x, key.y)
      ELSE find_ec_key(Tail(keys))

\* load_jwks: ec_pubkey_ after the constructor, from what the JWKS endpoint
\* answered: whether the request got a 200, what the body is (unparsable, a
\* document without "keys", one whose "keys" is no array, one whose "keys" is
\* an array), and the keys of that array.
load_jwks(answer) ==
  IF answer.fetch # "ok" THEN NoKey
  ELSE IF answer.body = "unparsable" THEN NoKey
  ELSE IF answer.body # "keys_array" THEN NoKey
  ELSE IF answer.keys = <<>> THEN NoKey
  ELSE find_ec_key(answer.keys)

(***************************************************************************)
(* SupabaseClient (persistence/supabase_client): the backing store.  Each  *)
(* call takes `up`, whether the request got a 2xx answer with a parsable   *)
(* body; a failed read degrades to empty / false, a failed write to false. *)
(* The access query takes the answer itself.                               *)
(***************************************************************************)
NoSnapshot == [has |-> FALSE, bytes |-> <<>>]
Snapshot(bytes) == [has |-> TRUE, bytes |-> bytes]

\* The rows of the project_users table.
project_users == { <<"P1", "u1">>, <<"P2", "u1">>, <<"P3", "u1">>, <<"P1", "u2">> }

\* What the store answers to the project_users query: no answer at all, a
\* status outside 2xx, a 2xx with a body that does not parse (the empty body
\* included), a 2xx with a JSON value that is no array, or the array of the
\* rows asked for.
AccessAnswers == {"unreachable", "non_2xx", "unparsable", "empty_body",
                  "no_array", "rows"}

\* The answers the runs of the whole connection path draw from.
AnswersTried == {"unreachable", "rows"}

\* request(): a transport failure is handed on as status 500.
response_ok(answer) == answer \notin {"unreachable", "non_2xx"}

\* json::parse of the body returns, and the value is an array.
body_is_array(answer) == answer = "rows"

\* Mutant: any 2xx answer counts as access, whatever rows it holds.
check_project_access_any(project_id, user_id, answer) ==
  response_ok(answer) /\ body_is_array(answer)

\* Mutant: access is refused only on the store's word.
check_project_access_fail_open(project_id, user_id, answer) ==
  body_is_array(answer) => <<project_id, user_id>> \in project_users

check_project_access(project_id, user_id, answer) ==
  /\ response_ok(answer)
  /\ body_is_array(answer)
  /\ <<project_id, user_id>> \in project_users

get_snapshot(snaps, project_id, up) ==
  IF up /\ project_id \in DOMAIN snaps THEN snaps[project_id] ELSE NoSnapshot

get_updates(upds, project_id, up) ==
  IF up /\ project_id \in DOMAIN upds THEN upds[project_id] ELSE <<>>

upsert_snapshot(snaps, project_id, bytes, up) ==
  IF up THEN [snaps EXCEPT ![project_id] = Snapshot(bytes)] ELSE snaps

append_update_front(upds, project_id, bytes, up) ==
  IF up THEN [upds EXCEPT ![project_id] = <<bytes>> \o @] ELSE upds

append_update(upds, project_id, bytes, up) ==
  IF up THEN [upds EXCEPT ![project_id] = Append(@, bytes)] ELSE upds

\* Mutant: the DELETE answers 2xx and removes nothing.
clear_updates_keeps(upds, project_id, up) == upds

clear_updates(upds, project_id, up) ==
  IF up THEN [upds EXCEPT ![project_id] = <<>>] ELSE upds

(***************************************************************************)
(* YjsPersistence (persistence/yjs_persistence).                           *)
(***************************************************************************)
\* load_state: the snapshot's bytes when there is one; the updates are fetched
\* and counted but never copied into the result.
load_state(snaps, upds, project_id, snapUp, updUp) ==
  LET snapshot == get_snapshot(snaps, project_id, snapUp)
      ups == get_updates(upds, project_id, updUp)
  IN IF ~snapshot.has /\ ups = <<>> THEN <<>>
     ELSE IF snapshot.has THEN snapshot.bytes ELSE <<>>

\* Mutant: one counter for all projects.
persist_update_counts_all(counts, project_id) ==
  [q \in DOMAIN counts |-> counts[q] + 1]

\* Mutant: the counter starts over when it reaches a threshold of two.
persist_update_counts_resets(counts, project_id) ==
  [counts EXCEPT ![project_id] = IF @ + 1 >= 2 THEN 0 ELSE @ + 1]

\* persist_update: append, then count, whatever the append answered.
persist_update_counts(counts, project_id) ==
  [counts EXCEPT ![project_id] = @ + 1]

persist_update(upds, counts, project_id, bytes, up) ==
  [updates |-> append_update(upds, project_id, bytes, up),
   update_counts |-> persist_update_counts(counts, project_id)]

(***************************************************************************)
(* WsServer (server/ws_server): the handlers of the connection path.       *)
(***************************************************************************)
FreshData == [user_id |-> "", project_id |-> "", authenticated |-> FALSE]

\* Inbound text frames tried: unparsable text, ping, an unknown type, and joins:
\* u1 to each project, u2 to a project it may enter and to one it may not, and
\* a join with a token that does not verify.
TextMsgs ==
  { [json |-> "garbage"],
    JsonObject("ping", Absent, Absent),
    JsonObject("leave", "P1", Absent),
    JsonObject("join", "P1", "tokU1"),
    JsonObject("join", "P2", "tokU1"),
    JsonObject("join", "P3", "tokU1"),
    JsonObject("join", "P1", "tokU2"),
    JsonObject("join", "P2", "tokU2"),
    JsonObject("join", "P1", "tokBad") }

RECURSIVE SumOver(_, _)
SumOver(f, S) ==
  IF S = {} THEN 0
  ELSE LET x == CHOOSE y \in S : TRUE IN f[x] + SumOver(f, S \ {x})

\* Room left for one more persist_update call within the model's bound.
PersistBudget ==
  /\ SumOver(update_counts, ProjectIds) < MaxPersists
  /\ SumOver([p \in ProjectIds |-> Len(updates[p])], ProjectIds) < MaxPersists

\* What on_close does to the rooms and the outboxes, for a socket with data d.
on_close(ws, d, rms, out) ==
  IF ~d.authenticated THEN [rooms |-> rms, sent |-> out, calls |-> <<>>]
  ELSE IF ~get(rms, d.project_id)
    THEN [rooms |-> rms, sent |-> out, calls |-> << [fn |-> "get", project_id |-> d.project_id] >>]
  ELSE
    LET peers == remove_peer(rms[d.project_id], ws)
        empty == room_empty(peers)
        rms1  == [rms EXCEPT ![d.project_id] = peers]
    IN [rooms |-> IF empty THEN remove_if_empty(rms1, d.project_id) ELSE rms1,
        sent  |-> IF ~empty
                    THEN broadcast(out, peers, NullWs, encode_peer_left(d.user_id))
                    ELSE out,
        calls |-> << [fn |-> "get", project_id |-> d.project_id] >>
                  \o (IF empty
                        THEN << [fn |-> "remove_if_empty", project_id |-> d.project_id] >>
                        ELSE <<>>)]

\* A handler that returns without doing anything.
Ignore ==
  /\ sent' = NoneSent
  /\ calls' = <<>>
  /\ UNCHANGED <<open, data, rooms, updates, update_counts>>

\* send error{code}, then typed_ws->close(): the transport runs the close
\* handler at once and frees the socket and its PerSocketData.
RejectJoin(ws, code, message, cs, rms) ==
  LET out == Send(NoneSent, ws, encode_error(code, message))
      c == on_close(ws, data[ws], rms, out)
  IN /\ sent' = c.sent
     /\ rooms' = c.rooms
     /\ calls' = cs \o c.calls
     /\ open' = open \ {ws}
     /\ data' = [data EXCEPT ![ws] = FreshData]
     /\ UNCHANGED <<updates, update_counts>>

\* The calls of one function among the calls cs.
CallsOf(cs, fn) == SelectSeq(cs, LAMBDA c : c.fn = fn)

VerifyCall(tok, v) == [fn |-> "verify", token |-> tok, ok |-> v.ok]
AccessCall(p, u, answer, r) ==
  [fn |-> "check_project_access", project_id |-> p, user_id |-> u,
   answer |-> answer, result |-> r]
GetOrCreateCall(p, r) == [fn |-> "get_or_create", project_id |-> p, found |-> r]
LoadStateCall(p, state) == [fn |-> "load_state", project_id |-> p, state |-> state]
PersistCall(p, bytes) == [fn |-> "persist_update", project_id |-> p, data |-> bytes]
AppendCall(p, bytes, r) ==
  [fn |-> "append_update", project_id |-> p, data |-> bytes, ok |-> r]

\* Mutant: a failed append is tried once more.
persist_update_calls_retry(p, bytes, r) ==
  << PersistCall(p, bytes), AppendCall(p, bytes, r) >>
    \o (IF r THEN <<>> ELSE << AppendCall(p, bytes, r) >>)

\* The calls of one persist_update: itself and the one append_update in it.
persist_update_calls(p, bytes, r) ==
  << PersistCall(p, bytes), AppendCall(p, bytes, r) >>

\* Mutant: join is handled in every state.
join_accepted_always(msg, d) == msg.type = "join"

\* The join guard of on_text_message.
join_accepted(msg, d) == msg.type = "join" /\ ~d.authenticated

\* The store answers each request or fails it; the handler draws the outcome
\* of a request where it issues it.
join(ws, msg, answers) ==
  LET claims == verify(msg.token, now, ec_pubkey, legacy_secret)
      c1 == << VerifyCall(msg.token, claims) >>
  IN IF ~claims.ok
       THEN RejectJoin(ws, "AUTH_FAILED", "Invalid or expired token", c1, rooms)
     ELSE
  \E answer \in answers :
  LET access == check_project_access(msg.project_id, claims.sub, answer)
      c2 == Append(c1, AccessCall(msg.project_id, claims.sub, answer, access))
  IN IF ~access
       THEN RejectJoin(ws, "ACCESS_DENIED", "No access to this project", c2, rooms)
     ELSE
  LET room == get_or_create(rooms, msg.project_id)
      c3 == Append(c2, GetOrCreateCall(msg.project_id, room.found))
  IN IF ~room.found
       THEN RejectJoin(ws, "ROOM_LIMIT", "Server room limit reached", c3, room.rooms)
     ELSE
  \E snapUp \in BOOLEAN, updUp \in BOOLEAN :
  LET peers == add_peer(room.rooms[msg.project_id], ws, claims.sub)
      out1 == Send(NoneSent, ws, encode_joined(claims.sub, get_peer_ids(peers)))
      out2 == broadcast(out1, peers, ws, encode_peer_joined(claims.sub))
      state == load_state(snapshots, updates, msg.project_id, snapUp, updUp)
      out3 == IF state # <<>>
                THEN Send(out2, ws, BinaryMsg(encode_binary(YjsSync, state)))
                ELSE out2
  IN /\ data' = [data EXCEPT ![ws] = [user_id |-> claims.sub,
                                      project_id |-> msg.project_id,
                                      authenticated |-> TRUE]]
     /\ rooms' = [room.rooms EXCEPT ![msg.project_id] = peers]
     /\ sent' = out3
     /\ calls' = Append(c3, LoadStateCall(msg.project_id, state))
     /\ UNCHANGED <<open, updates, update_counts>>

on_text_message(ws, text, answers) ==
  LET msg == decode_control(text) IN
  /\ ev' = [kind |-> "text", ws |-> ws, input |-> text]
  /\ IF ~msg.valid THEN Ignore
     ELSE IF msg.type = "ping"
       THEN /\ sent' = Send(NoneSent, ws, encode_pong)
            /\ calls' = <<>>
            /\ UNCHANGED <<open, data, rooms, updates, update_counts>>
     ELSE IF join_accepted(msg, data[ws])
       THEN join(ws, msg, answers)
     ELSE Ignore

\* Mutant: the gate is missing.
authenticated_gate_open(d) == TRUE

\* The gate of on_binary_message.
authenticated_gate(d) == d.authenticated

\* Mutant: everything but awareness is persisted.
persisted_type_not_awareness(type) == type # Awareness

\* Whether the frame's type makes on_binary_message persist it.
persisted_type(type) == type = YjsUpdate

on_binary_message(ws, frame) ==
  LET decoded == decode_binary(frame)
      project_id == data[ws].project_id
  IN
  /\ ev' = [kind |-> "binary", ws |-> ws, input |-> frame]
  /\ IF ~authenticated_gate(data[ws]) THEN Ignore
     ELSE IF ~decoded.valid THEN Ignore
     ELSE IF ~get(rooms, project_id)
       THEN /\ sent' = NoneSent
            /\ calls' = << [fn |-> "get", project_id |-> project_id] >>
            /\ UNCHANGED <<open, data, rooms, updates, update_counts>>
     ELSE
       /\ sent' = broadcast(NoneSent, rooms[project_id], ws, BinaryMsg(frame))
       /\ IF persisted_type(decoded.type)
            THEN \E appendUp \in BOOLEAN :
                 LET r == persist_update(updates, update_counts, project_id,
                                         decoded.payload, appendUp)
                 IN /\ updates' = r.updates
                    /\ update_counts' = r.update_counts
                    /\ calls' = << [fn |-> "get", project_id |-> project_id] >>
                                 \o persist_update_calls(project_id, decoded.payload,
                                                         appendUp)
            ELSE /\ calls' = << [fn |-> "get", project_id |-> project_id] >>
                 /\ UNCHANGED <<updates, update_counts>>
       /\ UNCHANGED <<open, data, rooms>>

(***************************************************************************)
(* The events of the connection path.                                      *)
(***************************************************************************)
\* ev, sent and calls describe the handler that has just run; the loop takes
\* the next event once the transport has flushed what that handler sent.
NoEvent == [kind |-> "none", ws |-> NullWs, input |-> ""]
LoopIdle == ev = NoEvent

\* .open: a new socket, its PerSocketData default-constructed.
Open(ws) ==
  /\ LoopIdle
  /\ ws \notin open
  /\ open' = open \cup {ws}
  /\ data' = [data EXCEPT ![ws] = FreshData]
  /\ ev' = [kind |-> "open", ws |-> ws, input |-> ""]
  /\ sent' = NoneSent
  /\ calls' = <<>>
  /\ UNCHANGED <<rooms, storeVars, verifierVars, lockVars, wire, jobVars>>

\* .message with opCode TEXT.
OnText(ws) ==
  /\ LoopIdle
  /\ ws \in open
  /\ \E text \in TextMsgs : on_text_message(ws, text, AnswersTried)
  /\ UNCHANGED <<snapshots, verifierVars, lockVars, wire, jobVars>>

\* .message with opCode BINARY.
\* Whether on_binary_message(ws, frame) gets to its persist_update call.
reaches_persist(ws, frame) ==
  /\ authenticated_gate(data[ws])
  /\ decode_binary(frame).valid
  /\ get(rooms, data[ws].project_id)
  /\ persisted_type(decode_binary(frame).type)

OnBinary(ws) ==
  /\ LoopIdle
  /\ ws \in open
  /\ \E frame \in Frames :
       /\ reaches_persist(ws, frame) => PersistBudget
       /\ on_binary_message(ws, frame)
  /\ UNCHANGED <<snapshots, verifierVars, lockVars, wire, jobVars>>

\* .close: the peer went away (or the transport dropped the socket).
OnClose(ws) ==
  /\ LoopIdle
  /\ ws \in open
  /\ LET c == on_close(ws, data[ws], rooms, NoneSent)
     IN /\ rooms' = c.rooms
        /\ sent' = c.sent
        /\ calls' = c.calls
  /\ open' = open \ {ws}
  /\ data' = [data EXCEPT ![ws] = FreshData]
  /\ ev' = [kind |-> "close", ws |-> ws, input |-> data[ws]]
  /\ UNCHANGED <<storeVars, verifierVars, lockVars, wire, jobVars>>

\* The handler has returned and its output is on the wire.
Flush ==
  /\ ~LoopIdle
  /\ ev' = NoEvent
  /\ sent' = NoneSent
  /\ calls' = <<>>
  /\ UNCHANGED <<connVars, storeVars, verifierVars, lockVars, wire, jobVars>>

\* No compact() call, no persist_update() call in progress.
Idle == [pc |-> "idle", step |-> 0, project_id |-> "", merged_state |-> <<>>,
         upsert_ok |-> FALSE, clear_ok |-> FALSE, old |-> <<>>, log |-> <<>>,
         interfered |-> FALSE]
IdleP == [pc |-> "idle", project_id |-> "", data |-> <<>>, ok |-> FALSE]

Init ==
  /\ open = {}
  /\ data = [w \in Conns |-> FreshData]
  /\ rooms = [p \in {} |-> EmptyPeers]
  /\ snapshots = [p \in ProjectIds |->
                    IF p = "P1" THEN Snapshot(<<17, 34>>) ELSE NoSnapshot]
  /\ updates = [p \in ProjectIds |-> <<>>]
  /\ update_counts = [p \in ProjectIds |-> 0]
  /\ ec_pubkey = "K1"
  /\ legacy_secret = "S1"
  /\ now = 5
  /\ cjob = Idle
  /\ pjob = IdleP
  /\ ev = NoEvent
  /\ sent = NoneSent
  /\ calls = <<>>
  /\ wire = NoneSent
  /\ mutex_ = NoThread
  /\ callers = [t \in Threads |-> NoCall]

Next ==
  \/ \E ws \in Conns :
       \/ Open(ws)
       \/ OnText(ws)
       \/ OnBinary(ws)
       \/ OnClose(ws)
  \/ Flush

Spec == Init /\ [][Next]_vars

(***************************************************************************)
(* The persistence controller beside a maintenance task.  compact() is run *)
(* by a caller on another thread than the event loop, so its three effects *)
(* are three steps, and persist_update() is two: the append to the store,  *)
(* then the counter under counter_mutex_.                                  *)
(*                                                                         *)
(* cjob keeps, beside the call's arguments and progress, what the checks   *)
(* read: the answers of the two store writes, the update rows the project  *)
(* held when compact was called (old), the effects performed so far (log), *)
(* and whether a persist_update of the same project overlapped the call or *)
(* followed it (interfered).                                               *)
(***************************************************************************)
\* The effects of compact, in the order the code performs them.
compact_ops == << "upsert_snapshot", "clear_updates", "reset_counter" >>

\* The payloads the connection path hands to persist_update.
Payloads == { decode_binary(f).payload :
                f \in { g \in Frames : decode_binary(g).valid
                                       /\ persisted_type(decode_binary(g).type) } }

\* The projects the controller is called for: one that has a snapshot and
\* one that has none.
StoreProjects == {"P1", "P2"}

\* Merged states a compaction caller passes in.
MergedStates == { <<51>>, <<68>> }

\* Room left for one more persist_update call beside a compaction.
StoreBudget ==
  /\ SumOver(update_counts, ProjectIds) < MaxStored
  /\ SumOver([p \in ProjectIds |-> Len(updates[p])], ProjectIds) < MaxStored

PersistAppend(project_id, bytes) ==
  /\ pjob.pc = "idle"
  /\ StoreBudget
  /\ \E up \in BOOLEAN :
       /\ updates' = append_update(updates, project_id, bytes, up)
       /\ pjob' = [pc |-> "appended", project_id |-> project_id,
                   data |-> bytes, ok |-> up]
  /\ cjob' = IF cjob.pc # "idle" /\ cjob.project_id = project_id
               THEN [cjob EXCEPT !.interfered = TRUE] ELSE cjob
  /\ UNCHANGED <<connVars, snapshots, update_counts, verifierVars, lockVars, wire, traceVars>>

PersistCount ==
  /\ pjob.pc = "appended"
  /\ update_counts' = persist_update_counts(update_counts, pjob.project_id)
  /\ pjob' = IdleP
  /\ cjob' = IF cjob.pc # "idle" /\ cjob.project_id = pjob.project_id
               THEN [cjob EXCEPT !.interfered = TRUE] ELSE cjob
  /\ UNCHANGED <<connVars, snapshots, updates, verifierVars, lockVars, wire, traceVars>>

CompactCall(project_id, merged_state) ==
  /\ cjob.pc \in {"idle", "done"}
  /\ cjob' = [pc |-> "running", step |-> 1, project_id |-> project_id,
              merged_state |-> merged_state,
              upsert_ok |-> FALSE, clear_ok |-> FALSE,
              old |-> updates[project_id], log |-> <<>>,
              interfered |-> (pjob.pc # "idle" /\ pjob.project_id = project_id)]
  /\ UNCHANGED <<connVars, storeVars, verifierVars, lockVars, wire, pjob, traceVars>>

CompactStep ==
  /\ cjob.pc = "running"
  /\ LET op == compact_ops[cjob.step]
         next == [cjob EXCEPT !.step = @ + 1,
                              !.log = Append(@, op),
                              !.pc = IF cjob.step = Len(compact_ops)
                                       THEN "done" ELSE "running"]
     IN CASE op = "upsert_snapshot" ->
               \E up \in BOOLEAN :
                 /\ snapshots' = upsert_snapshot(snapshots, cjob.project_id,
                                                 cjob.merged_state, up)
                 /\ cjob' = [next EXCEPT !.upsert_ok = up]
                 /\ UNCHANGED <<updates, update_counts>>
          [] op = "clear_updates" ->
               \E up \in BOOLEAN :
                 /\ updates' = clear_updates(updates, cjob.project_id, up)
                 /\ cjob' = [next EXCEPT !.clear_ok = up]
                 /\ UNCHANGED <<snapshots, update_counts>>
          [] OTHER ->
               /\ update_counts' = [update_counts EXCEPT ![cjob.project_id] = 0]
               /\ cjob' = next
               /\ UNCHANGED <<snapshots, updates>>
  /\ UNCHANGED <<connVars, verifierVars, lockVars, wire, pjob, traceVars>>

NextPersist ==
  \/ \E project_id \in StoreProjects, bytes \in Payloads :
       PersistAppend(project_id, bytes)
  \/ PersistCount
  \/ \E project_id \in StoreProjects, merged_state \in MergedStates :
       CompactCall(project_id, merged_state)
  \/ CompactStep

SpecPersist == Init /\ [][NextPersist]_vars

\* The runs of the controller in which the store answers every request with
\* success: the append of a persist_update, the upsert and the DELETE of a
\* compact.
StoreCallsSucceed ==
  /\ (pjob.pc = "idle" /\ pjob'.pc = "appended") => pjob'.ok
  /\ (cjob.pc = "running" /\ cjob'.step = cjob.step + 1) =>
       /\ compact_ops[cjob.step] = "upsert_snapshot" => cjob'.upsert_ok
       /\ compact_ops[cjob.step] = "clear_updates" => cjob'.clear_ok

NextStoreUp ==
  \/ \E project_id \in StoreProjects, bytes \in Payloads :
       PersistAppend(project_id, bytes) /\ StoreCallsSucceed
  \/ PersistCount
  \/ \E project_id \in StoreProjects, merged_state \in MergedStates :
       CompactCall(project_id, merged_state)
  \/ CompactStep /\ StoreCallsSucceed

SpecStoreUp == Init /\ [][NextStoreUp]_vars

(***************************************************************************)
(* load_state called on its own, over the contents the store may hold      *)
(* (SpecLoad).  calls holds the call last made and what it returned.       *)
(***************************************************************************)
\* The rows a project's yjs_updates may hold, and its yjs_snapshots row.
StoredRows == { <<>>, << <<170, 187>> >>, << <<170, 187>>, <<204>> >>,
                << <<204>>, <<170, 187>> >> }
StoredSnapshots == { NoSnapshot, Snapshot(<<17, 34>>), Snapshot(<<>>) }

InitLoad ==
  /\ open = {}
  /\ data = [w \in Conns |-> FreshData]
  /\ rooms = [p \in {} |-> EmptyPeers]
  /\ snapshots \in [ProjectIds -> StoredSnapshots]
  /\ updates \in [ProjectIds -> StoredRows]
  /\ update_counts = [p \in ProjectIds |-> 0]
  /\ ec_pubkey = "K1"
  /\ legacy_secret = "S1"
  /\ now = 5
  /\ cjob = Idle
  /\ pjob = IdleP
  /\ ev = NoEvent
  /\ sent = NoneSent
  /\ calls = <<>>
  /\ wire = NoneSent
  /\ mutex_ = NoThread
  /\ callers = [t \in Threads |-> NoCall]

LoadState(project_id) ==
  /\ \E snapUp \in BOOLEAN, updUp \in BOOLEAN :
       calls' = << [fn |-> "load_state", project_id |-> project_id,
                    snap_ok |-> snapUp, upd_ok |-> updUp,
                    state |-> load_state(snapshots, updates, project_id,
                                         snapUp, updUp)] >>
  /\ UNCHANGED <<connVars, storeVars, verifierVars, lockVars, wire, jobVars, ev, sent>>

NextLoad == \E project_id \in ProjectIds : LoadState(project_id)

SpecLoad == InitLoad /\ [][NextLoad]_vars

(***************************************************************************)
(* The binary codec called on its own (SpecCodec): encode_binary, then     *)
(* decode_binary of what it returned, and decode_binary of any buffer.     *)
(* calls holds the calls of the current round and what they returned.      *)
(***************************************************************************)
Bytes == {0, 170, 255}
CodecTypes == {YjsSync, YjsUpdate, Awareness}
CodecPayloads == UNION { [1..n -> Bytes] : n \in 0..MaxPayloadLen }
CodecBuffers == UNION { [1..n -> Bytes \cup CodecTypes] : n \in 0..MaxPayloadLen }

DecodeCall(frame) ==
  [fn |-> "decode_binary", frame |-> frame, result |-> decode_binary(frame)]

Encode(type, bytes) ==
  /\ calls' = << [fn |-> "encode_binary", type |-> type, data |-> bytes,
                  result |-> encode_binary(type, bytes)] >>
  /\ UNCHANGED <<connVars, storeVars, verifierVars, lockVars, wire, jobVars, ev, sent>>

DecodeEncoded ==
  /\ Len(calls) = 1
  /\ calls[1].fn = "encode_binary"
  /\ calls' = Append(calls, DecodeCall(calls[1].result))
  /\ UNCHANGED <<connVars, storeVars, verifierVars, lockVars, wire, jobVars, ev, sent>>

DecodeBuffer(frame) ==
  /\ calls' = << DecodeCall(frame) >>
  /\ UNCHANGED <<connVars, storeVars, verifierVars, lockVars, wire, jobVars, ev, sent>>

NextCodec ==
  \/ \E type \in CodecTypes, bytes \in CodecPayloads : Encode(type, bytes)
  \/ DecodeEncoded
  \/ \E frame \in CodecBuffers : DecodeBuffer(frame)

SpecCodec == Init /\ [][NextCodec]_vars

(***************************************************************************)
(* One Room called on its own (SpecRoom): rooms holds that room alone.     *)
(* calls holds the call last made and what it returned.                    *)
(***************************************************************************)
InitRoom ==
  /\ open = {}
  /\ data = [w \in Conns |-> FreshData]
  /\ rooms = [p \in {"P1"} |-> EmptyPeers]
  /\ snapshots = [p \in ProjectIds |-> NoSnapshot]
  /\ updates = [p \in ProjectIds |-> <<>>]
  /\ update_counts = [p \in ProjectIds |-> 0]
  /\ ec_pubkey = "K1"
  /\ legacy_secret = "S1"
  /\ now = 5
  /\ cjob = Idle
  /\ pjob = IdleP
  /\ ev = NoEvent
  /\ sent = NoneSent
  /\ calls = <<>>
  /\ wire = NoneSent
  /\ mutex_ = NoThread
  /\ callers = [t \in Threads |-> NoCall]

AddPeer(ws, user_id) ==
  /\ calls' = << [fn |-> "add_peer", ws |-> ws, user_id |-> user_id,
                  result |-> add_peer_inserted(rooms["P1"], ws)] >>
  /\ rooms' = [rooms EXCEPT !["P1"] = add_peer(@, ws, user_id)]
  /\ UNCHANGED <<open, data, storeVars, verifierVars, lockVars, wire, jobVars, ev, sent>>

\* remove_peer returns peers_.empty() as it is after the erase.
RemovePeer(ws) ==
  /\ calls' = << [fn |-> "remove_peer", ws |-> ws,
                  result |-> room_empty(remove_peer(rooms["P1"], ws))] >>
  /\ rooms' = [rooms EXCEPT !["P1"] = remove_peer(@, ws)]
  /\ UNCHANGED <<open, data, storeVars, verifierVars, lockVars, wire, jobVars, ev, sent>>

NextRoom ==
  \E ws \in Conns :
    \/ \E user_id \in UserIds : AddPeer(ws, user_id)
    \/ RemovePeer(ws)

SpecRoom == InitRoom /\ [][NextRoom]_vars

(***************************************************************************)
(* JwtVerifier called on its own (SpecVerify), over the keys it may hold,  *)
(* the clock, and tokens given by what their segments decode to.  calls    *)
(* holds the call last made and what it returned.                          *)
(***************************************************************************)
TokenHeaders ==
  { [parsable |-> TRUE, alg |-> a] :
      a \in {"ES256", "HS256", "", "RS256", Absent, NonString} }
    \cup { [parsable |-> FALSE, alg |-> Absent] }

\* An ECDSA signature r||s under a key, one cut short by a byte, an HMAC-SHA256
\* under a secret (the empty one included), and no signature at all.
TokenSigs ==
  { [size |-> 64, ecdsa_key |-> k, hmac_secret |-> NoKey] : k \in {"K1", "K2"} }
    \cup { [size |-> 63, ecdsa_key |-> NoKey, hmac_secret |-> NoKey],
           [size |-> 0, ecdsa_key |-> NoKey, hmac_secret |-> NoKey] }
    \cup { [size |-> 32, ecdsa_key |-> NoKey, hmac_secret |-> x] : x \in {"S1", "S2", ""} }

TokenPayloads ==
  { [parsable |-> TRUE, sub |-> u, role |-> "authenticated", exp |-> e, iat |-> 1] :
      u \in {"u1", "", Absent, NonString}, e \in 0..MaxExp }
    \cup { [parsable |-> TRUE, sub |-> "u1", role |-> r, exp |-> 0, iat |-> 1] :
             r \in {Absent, NonString} }
    \cup { [parsable |-> FALSE, sub |-> "", role |-> "", exp |-> 0, iat |-> 0] }

DecodedTokens ==
  { [dots |-> 2, header |-> h, sig |-> g, payload |-> p] :
      h \in TokenHeaders, g \in TokenSigs, p \in TokenPayloads }
    \cup { TokenParts("no dots") }

InitVerify ==
  /\ open = {}
  /\ data = [w \in Conns |-> FreshData]
  /\ rooms = [p \in {} |-> EmptyPeers]
  /\ snapshots = [p \in ProjectIds |-> NoSnapshot]
  /\ updates = [p \in ProjectIds |-> <<>>]
  /\ update_counts = [p \in ProjectIds |-> 0]
  /\ ec_pubkey \in {NoKey, "K1"}
  /\ legacy_secret \in {"", "S1"}
  /\ now \in 0..MaxClock
  /\ cjob = Idle
  /\ pjob = IdleP
  /\ ev = NoEvent
  /\ sent = NoneSent
  /\ calls = <<>>
  /\ wire = NoneSent
  /\ mutex_ = NoThread
  /\ callers = [t \in Threads |-> NoCall]

\* One call per run: verify keeps nothing from one call to the next.
Verify(t) ==
  /\ calls = <<>>
  /\ calls' = << [fn |-> "verify", token |-> t,
                  result |-> verify_segments(t, now, ec_pubkey, legacy_secret)] >>
  /\ UNCHANGED <<connVars, storeVars, verifierVars, lockVars, wire, jobVars, ev, sent>>

NextVerify == \E t \in DecodedTokens : Verify(t)

SpecVerify == InitVerify /\ [][NextVerify]_vars

(***************************************************************************)
(* JwtVerifier from its construction on (SpecJwks): the constructor loads  *)
(* the key from what the JWKS endpoint answers, then verify is called any  *)
(* number of times.  ev holds the construction and the endpoint's answer,  *)
(* calls the verify call last made and what it returned.                   *)
(***************************************************************************)
\* The keys a JWKS document may list.
Jwks ==
  { Jwk("EC", "P-256", "c32", "c32"),
    Jwk("EC", "P-256", Absent, "c32"),
    Jwk("EC", "P-256", "c31", "c32"),
    Jwk("EC", "P-256", "c32", "off32"),
    Jwk("EC", "P-384", "c32", "c32"),
    Jwk("RSA", Absent, Absent, Absent),
    Jwk(NonString, "P-256", "c32", "c32") }

JwksAnswer(fetch, body, keys) ==
  [fetch |-> fetch, body |-> body, keys |-> keys]

\* What the endpoint may answer: no answer, a status other than 200, a body
\* that does not parse, a document without keys, with keys that are no array,
\* with no key, with one key or with two.
JwksAnswers ==
  { JwksAnswer("curl_error", "unparsable", <<>>),
    JwksAnswer("http_404", "unparsable", <<>>),
    JwksAnswer("ok", "unparsable", <<>>),
    JwksAnswer("ok", "no_keys", <<>>),
    JwksAnswer("ok", "keys_no_array", <<>>),
    JwksAnswer("ok", "keys_array", <<>>) }
    \cup { JwksAnswer("ok", "keys_array", <<k>>) : k \in Jwks }
    \cup { JwksAnswer("ok", "keys_array", <<j, k>>) : j \in Jwks, k \in Jwks }

\* JwtVerifier(supabase_url, legacy_secret).
InitJwks ==
  /\ open = {}
  /\ data = [w \in Conns |-> FreshData]
  /\ rooms = [p \in {} |-> EmptyPeers]
  /\ snapshots = [p \in ProjectIds |-> NoSnapshot]
  /\ updates = [p \in ProjectIds |-> <<>>]
  /\ update_counts = [p \in ProjectIds |-> 0]
  /\ \E answer \in JwksAnswers :
       /\ ev = [kind |-> "construct", ws |-> NullWs, input |-> answer]
       /\ ec_pubkey = load_jwks(answer)
  /\ legacy_secret \in {"", "S1"}
  /\ now = 1
  /\ cjob = Idle
  /\ pjob = IdleP
  /\ sent = NoneSent
  /\ calls = <<>>
  /\ wire = NoneSent
  /\ mutex_ = NoThread
  /\ callers = [t \in Threads |-> NoCall]

\* verify, called again on the verifier as constructed.
VerifyNext(t) ==
  /\ calls # <<>>
  /\ calls' = << [fn |-> "verify", token |-> t,
                  result |-> verify_segments(t, now, ec_pubkey, legacy_secret)] >>
  /\ UNCHANGED <<connVars, storeVars, verifierVars, lockVars, wire, jobVars, ev, sent>>

\* The first call is made with any token, the later ones with the tokens of
\* the connection path.
NextJwks ==
  \/ \E t \in DecodedTokens : Verify(t)
  \/ \E tok \in Tokens : VerifyNext(TokenParts(tok))

SpecJwks == InitJwks /\ [][NextJwks]_vars

(***************************************************************************)
(* The relay over several frames: every frame carries the number of its    *)
(* arrival as its payload, and wire keeps the frames relayed to each socket.*)
(***************************************************************************)
\* The handles the ordering runs use: a sender and a peer, either way round.
OrderConns == {1, 2}

OrderJoins ==
  { JsonObject("join", "P1", "tokU1"),
    JsonObject("join", "P1", "tokU2"),
    JsonObject("join", "P2", "tokU1") }

\* The relayed frames among the messages msgs (a join's Sync frame is not one).
RelayedFrames(msgs) ==
  SelectSeq(msgs, LAMBDA m : m.op = "BINARY" /\ Len(m.bytes) = 2
                               /\ m.bytes[1] \in {YjsUpdate, Awareness})

\* Their arrival numbers.
Relayed(msgs) ==
  LET r == RelayedFrames(msgs) IN [i \in 1..Len(r) |-> r[i].bytes[2]]

\* The stored update rows of a project, as arrival numbers.
Stored(p) == [i \in 1..Len(updates[p]) |-> updates[p][i][1]]

SeqRange(s) == {s[i] : i \in 1..Len(s)}

\* The arrival numbers that have left a trace on a socket or in the store.
Arrived ==
  UNION ({SeqRange(Relayed(wire[w])) : w \in Conns}
           \cup {SeqRange(Stored(p)) : p \in ProjectIds})

\* The number of the next frame: above every number relayed or stored so far
\* and above the count of Update frames taken so far.
NextArrival ==
  LET seen == Arrived \cup {SumOver(update_counts, ProjectIds)}
  IN 1 + (CHOOSE k \in seen : \A j \in seen : j <= k)

\* A join message on an open connection.
OnJoin(ws) ==
  /\ LoopIdle
  /\ ws \in open
  /\ \E text \in OrderJoins : on_text_message(ws, text, AnswersTried)
  /\ UNCHANGED <<snapshots, verifierVars, lockVars, wire, jobVars>>

\* The next Update or Awareness frame, from a joined connection.
OnFrame(ws) ==
  /\ LoopIdle
  /\ ws \in open
  /\ data[ws].authenticated
  /\ NextArrival <= MaxFrames
  /\ \E type \in {YjsUpdate, Awareness} :
       on_binary_message(ws, <<type, NextArrival>>)
  /\ UNCHANGED <<snapshots, verifierVars, lockVars, wire, jobVars>>

\* The handler has returned; what it handed to each socket follows what the
\* socket was handed before.
Deliver ==
  /\ ~LoopIdle
  /\ wire' = [w \in Conns |-> wire[w] \o RelayedFrames(sent[w])]
  /\ ev' = NoEvent
  /\ sent' = NoneSent
  /\ calls' = <<>>
  /\ UNCHANGED <<connVars, storeVars, verifierVars, lockVars, jobVars>>

NextOrder ==
  \/ \E ws \in OrderConns :
       \/ Open(ws)
       \/ OnJoin(ws)
       \/ OnFrame(ws)
       \/ OnClose(ws)
  \/ Deliver

SpecOrder == Init /\ [][NextOrder]_vars

(***************************************************************************)
(* A join that passed its gates, effect by effect (SpecJoin).  ev holds    *)
(* the join message being handled, calls the three gate calls followed by  *)
(* the effects performed so far, sent what has been sent so far.           *)
(***************************************************************************)
\* Mutant: the state is loaded and sent before the peer is registered.
join_effects_sync_first ==
  << "load_state", "send_sync", "register", "send_joined", "broadcast_peer_joined" >>

\* The effects of a join after its gates, in the order the code performs them.
join_effects ==
  << "register", "send_joined", "broadcast_peer_joined", "load_state", "send_sync" >>

EffectCall(op, p) == [fn |-> op, project_id |-> p]

\* The gate calls of a join being handled come first in calls.
GateCalls == 3

\* A join message whose three gates pass: the room exists from here on.
JoinGates(ws) ==
  /\ LoopIdle
  /\ ws \in open
  /\ \E text \in OrderJoins :
       LET msg == decode_control(text)
           claims == verify(msg.token, now, ec_pubkey, legacy_secret)
           room == get_or_create(rooms, msg.project_id)
       IN /\ join_accepted(msg, data[ws])
          /\ claims.ok
          /\ check_project_access(msg.project_id, claims.sub, "rows")
          /\ room.found
          /\ rooms' = room.rooms
          /\ ev' = [kind |-> "text", ws |-> ws, input |-> text]
          /\ calls' = << VerifyCall(msg.token, claims),
                         AccessCall(msg.project_id, claims.sub, "rows", TRUE),
                         GetOrCreateCall(msg.project_id, TRUE) >>
  /\ sent' = NoneSent
  /\ UNCHANGED <<open, data, storeVars, verifierVars, lockVars, wire, jobVars>>

\* The next effect of the join being handled.
JoinEffect ==
  /\ ev.kind = "text"
  /\ Len(calls) - GateCalls < Len(join_effects)
  /\ LET ws == ev.ws
         msg == decode_control(ev.input)
         p == msg.project_id
         claims == verify(msg.token, now, ec_pubkey, legacy_secret)
         op == join_effects[Len(calls) - GateCalls + 1]
         loads == CallsOf(calls, "load_state")
         state == IF loads = <<>> THEN <<>> ELSE loads[1].state
     IN CASE op = "register" ->
               /\ data' = [data EXCEPT ![ws] = [user_id |-> claims.sub,
                                                project_id |-> p,
                                                authenticated |-> TRUE]]
               /\ rooms' = [rooms EXCEPT ![p] = add_peer(@, ws, claims.sub)]
               /\ calls' = Append(calls, EffectCall(op, p))
               /\ UNCHANGED sent
          [] op = "send_joined" ->
               /\ sent' = Send(sent, ws, encode_joined(claims.sub, get_peer_ids(rooms[p])))
               /\ calls' = Append(calls, EffectCall(op, p))
               /\ UNCHANGED <<data, rooms>>
          [] op = "broadcast_peer_joined" ->
               /\ sent' = broadcast(sent, rooms[p], ws, encode_peer_joined(claims.sub))
               /\ calls' = Append(calls, EffectCall(op, p))
               /\ UNCHANGED <<data, rooms>>
          [] op = "load_state" ->
               /\ \E snapUp \in BOOLEAN, updUp \in BOOLEAN :
                    calls' = Append(calls,
                               LoadStateCall(p, load_state(snapshots, updates, p,
                                                           snapUp, updUp)))
               /\ UNCHANGED <<data, rooms, sent>>
          [] OTHER ->
               /\ sent' = IF state # <<>>
                            THEN Send(sent, ws, BinaryMsg(encode_binary(YjsSync, state)))
                            ELSE sent
               /\ calls' = Append(calls, EffectCall(op, p))
               /\ UNCHANGED <<data, rooms>>
  /\ UNCHANGED <<open, ev, storeVars, verifierVars, lockVars, wire, jobVars>>

\* The handler has returned: a join only after its last effect.
Return ==
  /\ ~LoopIdle
  /\ ev.kind = "text" => Len(calls) - GateCalls = Len(join_effects)
  /\ ev' = NoEvent
  /\ sent' = NoneSent
  /\ calls' = <<>>
  /\ UNCHANGED <<connVars, storeVars, verifierVars, lockVars, wire, jobVars>>

NextJoin ==
  \/ \E ws \in Conns :
       \/ Open(ws)
       \/ JoinGates(ws)
       \/ OnClose(ws)
  \/ JoinEffect
  \/ Return

SpecJoin == Init /\ [][NextJoin]_vars

(***************************************************************************)
(* Joins under every answer of the store to the access query (SpecAccess). *)
(***************************************************************************)
\* The joins tried: those of OrderJoins and one of a user without a row.
AccessJoins == OrderJoins \cup { JsonObject("join", "P2", "tokU2") }

OnAccessJoin(ws) ==
  /\ LoopIdle
  /\ ws \in open
  /\ \E text \in AccessJoins : on_text_message(ws, text, AccessAnswers)
  /\ UNCHANGED <<snapshots, verifierVars, lockVars, wire, jobVars>>

NextAccess ==
  \/ \E ws \in Conns :
       \/ Open(ws)
       \/ OnAccessJoin(ws)
       \/ OnClose(ws)
  \/ Flush

SpecAccess == Init /\ [][NextAccess]_vars

(***************************************************************************)
(* The RoomManager called from two threads (SpecRegistry).  A call takes   *)
(* the lock, looks the map up, acts on it, and gives the lock back on      *)
(* return; callers keeps where each thread's call is and the map as its    *)
(* lookup found it (seen).                                                 *)
(***************************************************************************)
RegistryOps == {"get_or_create", "get", "remove_if_empty", "room_count", "for_each"}

\* One room with a peer in it; the rooms created by the calls are empty.
InitRegistry ==
  /\ open = {1}
  /\ data = [w \in Conns |-> IF w = 1
                                THEN [user_id |-> "u1", project_id |-> "P1",
                                      authenticated |-> TRUE]
                                ELSE FreshData]
  /\ rooms = [p \in {"P1"} |-> add_peer(EmptyPeers, 1, "u1")]
  /\ snapshots = [p \in ProjectIds |-> NoSnapshot]
  /\ updates = [p \in ProjectIds |-> <<>>]
  /\ update_counts = [p \in ProjectIds |-> 0]
  /\ ec_pubkey = "K1"
  /\ legacy_secret = "S1"
  /\ now = 5
  /\ cjob = Idle
  /\ pjob = IdleP
  /\ ev = NoEvent
  /\ sent = NoneSent
  /\ calls = <<>>
  /\ wire = NoneSent
  /\ mutex_ = NoThread
  /\ callers = [t \in Threads |-> NoCall]

\* Thread t calls an operation; the operations without an argument are called
\* with the empty project id.
RegistryCall(t, op, project_id) ==
  /\ callers[t].pc = "idle"
  /\ (op \in {"room_count", "for_each"}) <=> (project_id = "")
  /\ callers' = [callers EXCEPT ![t] = [pc |-> "lock", op |-> op,
                                        project_id |-> project_id, seen |-> <<>>]]
  /\ UNCHANGED <<connVars, storeVars, verifierVars, wire, jobVars, traceVars, mutex_>>

\* std::lock_guard lock(mutex_).
Lock(t) ==
  /\ callers[t].pc = "lock"
  /\ mutex_free(mutex_)
  /\ mutex_' = t
  /\ callers' = [callers EXCEPT ![t].pc = "locked"]
  /\ UNCHANGED <<connVars, storeVars, verifierVars, wire, jobVars, traceVars>>

\* The first access to rooms_: find, size, or the start of the iteration.
Lookup(t) ==
  /\ callers[t].pc = "locked"
  /\ callers' = [callers EXCEPT ![t].pc = "found", ![t].seen = rooms]
  /\ UNCHANGED <<connVars, storeVars, verifierVars, wire, jobVars, traceVars, mutex_>>

\* The rest of the body: emplace, erase, or nothing.
Act(t) ==
  /\ callers[t].pc = "found"
  /\ LET c == callers[t]
     IN rooms' = CASE c.op = "get_or_create" -> get_or_create(rooms, c.project_id).rooms
                   [] c.op = "remove_if_empty" -> remove_if_empty(rooms, c.project_id)
                   [] OTHER -> rooms
  /\ callers' = [callers EXCEPT ![t].pc = "acted"]
  /\ UNCHANGED <<open, data, storeVars, verifierVars, wire, jobVars, traceVars, mutex_>>

\* return: the lock_guard goes out of scope.
Unlock(t) ==
  /\ callers[t].pc = "acted"
  /\ mutex_' = NoThread
  /\ callers' = [callers EXCEPT ![t] = NoCall]
  /\ UNCHANGED <<connVars, storeVars, verifierVars, wire, jobVars, traceVars>>

NextRegistry ==
  \E t \in Threads :
    \/ \E op \in RegistryOps, project_id \in ProjectIds \cup {""} :
         RegistryCall(t, op, project_id)
    \/ Lock(t)
    \/ Lookup(t)
    \/ Act(t)
    \/ Unlock(t)

SpecRegistry == InitRegistry /\ [][NextRegistry]_vars

(***************************************************************************)
(* Control messages of every shape on connections in every state           *)
(* (SpecControl).                                                          *)
(***************************************************************************)
\* The text frames tried: text that is no JSON, JSON that is no object (an
\* array), objects without a type, with the empty type, with a type that is
\* no string, with the types leave and pong, and a ping.
ControlMsgs ==
  { [json |-> "garbage"],
    [json |-> "array"],
    JsonObject(Absent, "P1", "tokU1"),
    JsonObject("", "P1", "tokU1"),
    JsonObject(NonString, "P1", "tokU1"),
    JsonObject("leave", "P1", Absent),
    JsonObject("pong", Absent, Absent),
    JsonObject("ping", Absent, Absent) }

OnControl(ws) ==
  /\ LoopIdle
  /\ ws \in open
  /\ \E text \in ControlMsgs : on_text_message(ws, text, AnswersTried)
  /\ UNCHANGED <<snapshots, verifierVars, lockVars, wire, jobVars>>

NextControl ==
  \/ \E ws \in Conns :
       \/ Open(ws)
       \/ OnJoin(ws)
       \/ OnControl(ws)
       \/ OnClose(ws)
  \/ Flush

SpecControl == Init /\ [][NextControl]_vars

(***************************************************************************)
(* The join and close handlers beside a for_each sweep (SpecSweep).  The   *)
(* event loop's handler takes its RoomManager call under the lock and acts *)
(* on the Room it got back after the lock is released; the sweep runs on   *)
(* the thread of a periodic task.  ev holds the event being handled, calls *)
(* the steps the handler has taken so far.                                 *)
(***************************************************************************)
LoopCall(op, project_id) ==
  [callers EXCEPT !["loop"] = [pc |-> "lock", op |-> op,
                               project_id |-> project_id, seen |-> <<>>]]

LoopReturned == callers["loop"].pc = "idle"

\* on_text_message, a join whose first two gates pass, up to get_or_create.
SweepJoin(ws) ==
  /\ LoopIdle
  /\ LoopReturned
  /\ ws \in open
  /\ \E text \in OrderJoins :
       LET msg == decode_control(text)
           claims == verify(msg.token, now, ec_pubkey, legacy_secret)
       IN /\ join_accepted(msg, data[ws])
          /\ claims.ok
          /\ check_project_access(msg.project_id, claims.sub, "rows")
          /\ ev' = [kind |-> "text", ws |-> ws, input |-> text]
          /\ calls' = << EffectCall("get_or_create", msg.project_id) >>
          /\ callers' = LoopCall("get_or_create", msg.project_id)
  /\ sent' = NoneSent
  /\ UNCHANGED <<connVars, storeVars, verifierVars, wire, jobVars, mutex_>>

\* get_or_create has returned: the error and the close when it returned no
\* room, else the PerSocketData and add_peer.
SweepAddPeer ==
  /\ ev.kind = "text"
  /\ LoopReturned
  /\ Len(calls) = 1
  /\ LET ws == ev.ws
         msg == decode_control(ev.input)
         claims == verify(msg.token, now, ec_pubkey, legacy_secret)
     IN IF get(rooms, msg.project_id)
          THEN /\ data' = [data EXCEPT ![ws] = [user_id |-> claims.sub,
                                                project_id |-> msg.project_id,
                                                authenticated |-> TRUE]]
               /\ rooms' = [rooms EXCEPT ![msg.project_id] =
                                          add_peer(@, ws, claims.sub)]
               /\ calls' = Append(calls, EffectCall("add_peer", msg.project_id))
               /\ UNCHANGED open
          ELSE /\ open' = open \ {ws}
               /\ calls' = Append(calls, EffectCall("close", msg.project_id))
               /\ UNCHANGED <<data, rooms>>
  /\ UNCHANGED <<ev, sent, storeVars, verifierVars, wire, jobVars, lockVars>>

\* on_close of a joined connection, up to get.
SweepClose(ws) ==
  /\ LoopIdle
  /\ LoopReturned
  /\ ws \in open
  /\ data[ws].authenticated
  /\ open' = open \ {ws}
  /\ ev' = [kind |-> "close", ws |-> ws, input |-> data[ws]]
  /\ calls' = << EffectCall("get", data[ws].project_id) >>
  /\ callers' = LoopCall("get", data[ws].project_id)
  /\ sent' = NoneSent
  /\ UNCHANGED <<data, rooms, storeVars, verifierVars, wire, jobVars, mutex_>>

\* get has returned the room: remove_peer.
SweepRemovePeer ==
  /\ ev.kind = "close"
  /\ LoopReturned
  /\ Len(calls) = 1
  /\ get(rooms, ev.input.project_id)
  /\ rooms' = [rooms EXCEPT ![ev.input.project_id] = remove_peer(@, ev.ws)]
  /\ calls' = Append(calls, EffectCall("remove_peer", ev.input.project_id))
  /\ UNCHANGED <<open, data, ev, sent, storeVars, verifierVars, wire, jobVars,
                 lockVars>>

\* remove_peer returned true: remove_if_empty.
SweepRemoveIfEmpty ==
  /\ ev.kind = "close"
  /\ Len(calls) = 2
  /\ room_empty(rooms[ev.input.project_id])
  /\ calls' = Append(calls, EffectCall("remove_if_empty", ev.input.project_id))
  /\ callers' = LoopCall("remove_if_empty", ev.input.project_id)
  /\ UNCHANGED <<connVars, ev, sent, storeVars, verifierVars, wire, jobVars, mutex_>>

\* Whether the handler of ev has taken its last step.
HandlerDone ==
  /\ LoopReturned
  /\ ev.kind = "text" => Len(calls) = 2
  /\ ev.kind = "close" =>
       \/ Len(calls) = 3
       \/ Len(calls) = 2 /\ calls[2].fn = "remove_peer"
                         /\ ~room_empty(rooms[ev.input.project_id])

\* The handler returns; after a close the transport frees the PerSocketData.
SweepReturn ==
  /\ ~LoopIdle
  /\ HandlerDone
  /\ data' = IF ev.kind = "close" THEN [data EXCEPT ![ev.ws] = FreshData] ELSE data
  /\ ev' = NoEvent
  /\ sent' = NoneSent
  /\ calls' = <<>>
  /\ UNCHANGED <<open, rooms, storeVars, verifierVars, wire, jobVars, lockVars>>

\* The periodic task starts a sweep.
Sweep == RegistryCall("task", "for_each", "")

NextSweep ==
  \/ \E ws \in OrderConns :
       \/ Open(ws)
       \/ SweepJoin(ws)
       \/ SweepClose(ws)
  \/ SweepAddPeer
  \/ SweepRemovePeer
  \/ SweepRemoveIfEmpty
  \/ SweepReturn
  \/ Sweep
  \/ \E t \in Threads :
       \/ Lock(t)
       \/ Lookup(t)
       \/ Act(t)
       \/ Unlock(t)

SpecSweep == Init /\ [][NextSweep]_vars

(***************************************************************************)
(* Properties of the connection path (checked under Spec).                 *)
(***************************************************************************)
IsPrefix(a, b) == Len(a) <= Len(b) /\ SubSeq(b, 1, Len(a)) = a
RoomsOf(w) == {p \in DOMAIN rooms : w \in DOMAIN rooms[p]}
NonEmptyRooms == {p \in DOMAIN rooms : DOMAIN rooms[p] # {}}

\* C1: a binary frame received on a connection that has not completed a join
\* is ignored: nothing is sent to any connection, no collaborator (so no
\* persist_update / append_update) is called, and the connection's data, the
\* open sockets, every room, the registry and the store are left as they were.
C1_UnauthBinaryIgnored ==
  [][ (LoopIdle /\ ev'.kind = "binary" /\ ~data[ev'.ws].authenticated)
        => /\ sent' = NoneSent
           /\ calls' = <<>>
           /\ data' = data
           /\ open' = open
           /\ rooms' = rooms
           /\ snapshots' = snapshots
           /\ updates' = updates
           /\ update_counts' = update_counts ]_vars

\* An open connection that never joined has sent an Update frame while other
\* connections sit in a room.
C1_Witness ==
  /\ ev.kind = "binary"
  /\ ev.input = <<2, 170, 187>>
  /\ ev.ws \in open
  /\ ~data[ev.ws].authenticated
  /\ NonEmptyRooms # {}

\* C2: when an authenticated connection c of session S sends a binary frame of
\* length >= 1, S is in the registry with c among its peers, every other peer
\* of S is sent exactly one binary message with the bytes of the frame, and
\* nothing is sent to c or to any connection outside S.
C2_RelayToOtherPeers ==
  (ev.kind = "binary" /\ data[ev.ws].authenticated /\ Len(ev.input) >= 1)
    => LET S == data[ev.ws].project_id IN
       /\ S \in DOMAIN rooms
       /\ ev.ws \in DOMAIN rooms[S]
       /\ \A w \in Conns :
            sent[w] = IF w \in DOMAIN rooms[S] /\ w # ev.ws
                        THEN << [op |-> "BINARY", bytes |-> ev.input] >>
                        ELSE <<>>

\* A frame was relayed in a room of two while a third connection sits in
\* another room.
C2_Witness ==
  /\ ev.kind = "binary"
  /\ data[ev.ws].authenticated
  /\ Len(ev.input) >= 1
  /\ data[ev.ws].project_id \in DOMAIN rooms
  /\ Cardinality(DOMAIN rooms[data[ev.ws].project_id]) = 2
  /\ \E w \in open : /\ data[w].authenticated
                     /\ data[w].project_id # data[ev.ws].project_id

\* C3: for a binary frame from an authenticated connection, persist_update is
\* called exactly once, with the sender's project and the bytes after the tag,
\* and one append_update is issued for it, when the tag is 2 (Update); for
\* every other frame (tag 1, tag 3, an unknown tag, the empty frame) no
\* persist_update or append_update is called, and a frame of length >= 1 is
\* still relayed to the other peers.
C3_PersistExactlyUpdates ==
  (ev.kind = "binary" /\ data[ev.ws].authenticated)
    => LET S == data[ev.ws].project_id
           persists == CallsOf(calls, "persist_update")
           appends == CallsOf(calls, "append_update")
       IN IF Len(ev.input) >= 1 /\ ev.input[1] = 2
            THEN /\ persists = << [fn |-> "persist_update", project_id |-> S,
                                   data |-> Tail(ev.input)] >>
                 /\ Len(appends) = 1
                 /\ appends[1].project_id = S
                 /\ appends[1].data = Tail(ev.input)
            ELSE /\ persists = <<>>
                 /\ appends = <<>>
                 /\ Len(ev.input) >= 1 =>
                      \A w \in DOMAIN rooms[S] \ {ev.ws} :
                        sent[w] = << [op |-> "BINARY", bytes |-> ev.input] >>

\* The only peer of a room has sent an Update frame, and it was persisted.
C3_Witness ==
  /\ ev.kind = "binary"
  /\ data[ev.ws].authenticated
  /\ ev.input = <<2, 170, 187>>
  /\ DOMAIN rooms[data[ev.ws].project_id] = {ev.ws}
  /\ CallsOf(calls, "persist_update") # <<>>
  /\ updates[data[ev.ws].project_id] = << <<170, 187>> >>

\* A join message handled on a connection that has not joined yet.
JoinStep ==
  /\ LoopIdle
  /\ ev'.kind = "text"
  /\ decode_control(ev'.input).valid
  /\ decode_control(ev'.input).type = "join"
  /\ ~data[ev'.ws].authenticated

\* C4: a connection becomes authenticated only in the handler of its own join
\* message, and only when the token verified, check_project_access(projectId,
\* claims.sub) answered true (so the row exists) and get_or_create returned a
\* room; its user and project are then those of the claims and the message.
\* A join on a connection that has not joined for which a gate fails sends
\* that connection exactly one error whose code is that of the first failing
\* gate (AUTH_FAILED, ACCESS_DENIED, ROOM_LIMIT; later gates are not
\* consulted), closes it, sends nothing to anyone else, and changes no room
\* and no stored data.
C4_JoinGates ==
  [][ /\ \A w \in Conns :
           (~data[w].authenticated /\ data'[w].authenticated)
             => /\ ev'.kind = "text"
                /\ ev'.ws = w
                /\ LET msg == decode_control(ev'.input)
                       v == verify(msg.token, now, ec_pubkey, legacy_secret)
                   IN /\ msg.type = "join"
                      /\ v.ok
                      /\ data'[w].user_id = v.sub
                      /\ data'[w].project_id = msg.project_id
                      /\ <<msg.project_id, v.sub>> \in project_users
                      /\ Len(calls') >= 3
                      /\ calls'[1] = [fn |-> "verify", token |-> msg.token, ok |-> TRUE]
                      /\ calls'[2] = [fn |-> "check_project_access",
                                      project_id |-> msg.project_id,
                                      user_id |-> v.sub, answer |-> "rows",
                                      result |-> TRUE]
                      /\ calls'[3] = [fn |-> "get_or_create",
                                      project_id |-> msg.project_id, found |-> TRUE]
                      /\ w \in DOMAIN rooms'[msg.project_id]
      /\ JoinStep
           => LET w == ev'.ws
                  msg == decode_control(ev'.input)
                  v == verify(msg.token, now, ec_pubkey, legacy_secret)
                  authOk == calls'[1].ok
                  accessOk == authOk /\ calls'[2].result
                  roomOk == accessOk /\ calls'[3].found
                  code == IF ~authOk THEN "AUTH_FAILED"
                          ELSE IF ~accessOk THEN "ACCESS_DENIED"
                          ELSE "ROOM_LIMIT"
              IN /\ calls'[1].fn = "verify"
                 /\ calls'[1].ok = v.ok
                 /\ authOk => /\ calls'[2].fn = "check_project_access"
                              /\ calls'[2].project_id = msg.project_id
                              /\ calls'[2].user_id = v.sub
                 /\ accessOk => calls'[3].fn = "get_or_create"
                 /\ IF roomOk
                      THEN data'[w].authenticated
                      ELSE /\ Len(calls') = (IF ~authOk THEN 1 ELSE IF ~accessOk THEN 2 ELSE 3)
                           /\ Len(sent'[w]) = 1
                           /\ sent'[w][1].op = "TEXT"
                           /\ sent'[w][1].type = "error"
                           /\ sent'[w][1].code = code
                           /\ w \notin open'
                           /\ ~data'[w].authenticated
                           /\ \A x \in Conns \ {w} : sent'[x] = <<>>
                           /\ rooms' = rooms
                           /\ snapshots' = snapshots
                           /\ updates' = updates
                           /\ update_counts' = update_counts ]_vars

\* A join with a valid token was refused access to a project other connections
\* are in, and the connection was closed.
C4_Witness ==
  /\ ev.kind = "text"
  /\ ev.ws \notin open
  /\ Len(calls) = 2
  /\ calls[1].ok
  /\ ~calls[2].result
  /\ Len(sent[ev.ws]) = 1
  /\ sent[ev.ws][1].code = "ACCESS_DENIED"
  /\ calls[2].project_id \in NonEmptyRooms

\* C5: the registry never holds more than max_rooms rooms; a get_or_create for
\* a project that has no room while the registry holds max_rooms rooms returns
\* no room, and a get_or_create that returns no room leaves the registry and
\* every room in it as they were.
C5_RegistryBounded ==
  /\ [](Cardinality(DOMAIN rooms) <= max_rooms)
  /\ [][ (JoinStep /\ Len(calls') >= 3 /\ calls'[3].fn = "get_or_create")
           => LET p == calls'[3].project_id
                  full == Cardinality(DOMAIN rooms) >= max_rooms
              IN /\ (p \notin DOMAIN rooms /\ full) => ~calls'[3].found
                 /\ ~calls'[3].found => /\ p \notin DOMAIN rooms
                                        /\ full
                                        /\ rooms' = rooms ]_vars

\* get_or_create has signalled capacity-exceeded with max_rooms rooms in place.
C5_Witness ==
  /\ ev.kind = "text"
  /\ Len(calls) = 3
  /\ calls[3].fn = "get_or_create"
  /\ ~calls[3].found
  /\ Cardinality(NonEmptyRooms) = max_rooms

\* C9: each connection handle is a peer of at most one room.
C9_HandleInOneRoom ==
  \A w \in Conns : Cardinality(RoomsOf(w)) <= 1

\* A connection that is a peer of one room has sent a join, with a token that
\* verifies, for another project its user may enter.
C9_Witness ==
  /\ ev.kind = "text"
  /\ decode_control(ev.input).type = "join"
  /\ ev.ws \in open
  /\ data[ev.ws].authenticated
  /\ decode_control(ev.input).project_id # data[ev.ws].project_id
  /\ <<decode_control(ev.input).project_id, data[ev.ws].user_id>> \in project_users
  /\ verify(decode_control(ev.input).token, now, ec_pubkey, legacy_secret).ok
  /\ RoomsOf(ev.ws) = {data[ev.ws].project_id}

\* C10: between handlers, the registry holds a room for project P exactly when
\* some open authenticated connection has project P, and no room in the
\* registry is empty.
C10_RoomIffPeer ==
  /\ \A p \in ProjectIds :
       p \in DOMAIN rooms
         <=> \E w \in open : data[w].authenticated /\ data[w].project_id = p
  /\ \A p \in DOMAIN rooms : DOMAIN rooms[p] # {}

\* The close of the last peer of a room has removed the room while another
\* room stays.
C10_Witness ==
  /\ ev.kind = "close"
  /\ ev.input.authenticated
  /\ ev.input.project_id \notin DOMAIN rooms
  /\ CallsOf(calls, "remove_if_empty") # <<>>
  /\ DOMAIN rooms # {}

\* A join message has been handled up to the load of the persisted state, that
\* is, the connection has joined.
JoinSucceeded ==
  /\ ev.kind = "text"
  /\ Len(calls) = 4
  /\ calls[4].fn = "load_state"

\* C11: when an authenticated connection of user u closes, it is removed from
\* its room; if other peers remain, the room stays in the registry with them
\* and each of them is sent exactly one peer-left{u} text message (nobody else
\* is sent anything); if none remain, nothing is sent and the room, and only
\* that room, leaves the registry.  The close of a connection that has not
\* joined sends nothing and leaves every room and the registry as they were.
C11_CloseLeavesRoom ==
  [][ (LoopIdle /\ ev'.kind = "close")
        => LET w == ev'.ws
               d == data[w]
           IN IF d.authenticated
                THEN LET p == d.project_id
                         rest == DOMAIN rooms[p] \ {w}
                     IN /\ w \in DOMAIN rooms[p]
                        /\ \A q \in DOMAIN rooms' : w \notin DOMAIN rooms'[q]
                        /\ IF rest # {}
                             THEN /\ DOMAIN rooms' = DOMAIN rooms
                                  /\ DOMAIN rooms'[p] = rest
                                  /\ \A x \in rest : rooms'[p][x] = rooms[p][x]
                                  /\ \A q \in DOMAIN rooms \ {p} : rooms'[q] = rooms[q]
                                  /\ \A x \in Conns :
                                       sent'[x] = IF x \in rest
                                                    THEN << [op |-> "TEXT", type |-> "peer-left",
                                                             userId |-> d.user_id] >>
                                                    ELSE <<>>
                             ELSE /\ sent' = NoneSent
                                  /\ DOMAIN rooms' = DOMAIN rooms \ {p}
                                  /\ \A q \in DOMAIN rooms' : rooms'[q] = rooms[q]
                ELSE /\ sent' = NoneSent
                     /\ rooms' = rooms ]_vars

\* An authenticated connection closed and its two remaining peers were told,
\* while another room stays as it was.
C11_Witness ==
  /\ ev.kind = "close"
  /\ ev.input.authenticated
  /\ ev.input.project_id \in DOMAIN rooms
  /\ Cardinality(DOMAIN rooms[ev.input.project_id]) = 2
  /\ \A x \in DOMAIN rooms[ev.input.project_id] :
       sent[x] = << [op |-> "TEXT", type |-> "peer-left", userId |-> ev.input.user_id] >>

\* C12: on a successful join by user u to project p, the joiner is sent exactly
\* one joined message, with userId u and a peers list holding one entry per
\* connection in the room at that moment (the joiner's included), and no
\* peer-joined; every other peer of the room is sent exactly one peer-joined{u}
\* and nothing else; connections outside the room are sent nothing.
C12_JoinedAndPeerJoined ==
  JoinSucceeded
    => LET w == ev.ws
           u == data[w].user_id
           p == data[w].project_id
           texts == SelectSeq(sent[w], LAMBDA m : m.op = "TEXT")
           entries == [x \in UserIds |->
                         Cardinality({c \in DOMAIN rooms[p] : rooms[p][c] = x})]
           joined == [op |-> "TEXT", type |-> "joined", userId |-> u, peers |-> entries]
       IN /\ w \in DOMAIN rooms[p]
          /\ rooms[p][w] = u
          /\ texts = << joined >>
          /\ sent[w][1] = texts[1]
          /\ \A x \in Conns \ {w} :
               sent[x] = IF x \in DOMAIN rooms[p]
                           THEN << [op |-> "TEXT", type |-> "peer-joined", userId |-> u] >>
                           ELSE <<>>

\* A user has joined, from a second connection, a room that holds three
\* connections, two of them that user's.
C12_Witness ==
  /\ JoinSucceeded
  /\ Cardinality(DOMAIN rooms[data[ev.ws].project_id]) = 3
  /\ \E x \in DOMAIN rooms[data[ev.ws].project_id] \ {ev.ws} :
       rooms[data[ev.ws].project_id][x] = data[ev.ws].user_id

\* C13: on a successful join, the binary messages sent to the joiner are one
\* frame <<1>> \o state when the state load_state returned is non-empty, and
\* none when it is empty (a failed store read included); no other connection
\* is sent a binary message; the joiner is authenticated and in the room in
\* both cases.
C13_SyncOnJoin ==
  JoinSucceeded
    => LET w == ev.ws
           state == calls[4].state
       IN /\ SelectSeq(sent[w], LAMBDA m : m.op = "BINARY")
               = IF state # <<>>
                   THEN << [op |-> "BINARY", bytes |-> <<1>> \o state] >>
                   ELSE <<>>
          /\ \A x \in Conns \ {w} :
               SelectSeq(sent[x], LAMBDA m : m.op = "BINARY") = <<>>
          /\ data[w].authenticated
          /\ w \in DOMAIN rooms[data[w].project_id]

\* A join to a project with a stored snapshot was answered with a Sync frame
\* while a peer was in the room.
C13_Witness ==
  /\ JoinSucceeded
  /\ calls[4].state = <<17, 34>>
  /\ Len(sent[ev.ws]) = 2
  /\ sent[ev.ws][2] = [op |-> "BINARY", bytes |-> <<1, 17, 34>>]
  /\ Cardinality(DOMAIN rooms[data[ev.ws].project_id]) = 2

\* C15: a ping, on a connection that has joined or not, makes the server send
\* exactly one pong to that connection and nothing to any other, call no
\* collaborator, and leave the connections' data, the open sockets, every
\* room, the registry and the store as they were.
C15_PingPong ==
  [][ (/\ LoopIdle
       /\ ev'.kind = "text"
       /\ decode_control(ev'.input).valid
       /\ decode_control(ev'.input).type = "ping")
        => /\ sent' = [x \in Conns |-> IF x = ev'.ws
                                         THEN << [op |-> "TEXT", type |-> "pong"] >>
                                         ELSE <<>>]
           /\ calls' = <<>>
           /\ data' = data
           /\ open' = open
           /\ rooms' = rooms
           /\ snapshots' = snapshots
           /\ updates' = updates
           /\ update_counts' = update_counts ]_vars

\* A connection that has not joined sent a ping and got the pong, while other
\* connections sit in a room.
C15_Witness ==
  /\ ev.kind = "text"
  /\ decode_control(ev.input).type = "ping"
  /\ ~data[ev.ws].authenticated
  /\ sent[ev.ws] = << [op |-> "TEXT", type |-> "pong"] >>
  /\ NonEmptyRooms # {}

\* C22: a join on a connection that has not joined which is rejected stops at
\* the first failing gate: when verify fails, it is the only call made; when
\* check_project_access fails, verify and it are the only calls; when
\* get_or_create returns no room, the three gate calls are the only calls.  In
\* all three cases load_state is not called, every room and the registry are
\* as they were, no other connection's data changes, nothing is sent to any
\* other connection, and the store is as it was.
C22_RejectedJoinNoEffect ==
  [][ (JoinStep /\ ~data'[ev'.ws].authenticated)
        => LET w == ev'.ws
               gates == << "verify", "check_project_access", "get_or_create" >>
               n == Len(calls')
           IN /\ n \in 1..3
              /\ \A i \in 1..n : calls'[i].fn = gates[i]
              /\ n = 1 => ~calls'[1].ok
              /\ n = 2 => calls'[1].ok /\ ~calls'[2].result
              /\ n = 3 => calls'[1].ok /\ calls'[2].result /\ ~calls'[3].found
              /\ rooms' = rooms
              /\ \A x \in Conns \ {w} : data'[x] = data[x] /\ sent'[x] = <<>>
              /\ snapshots' = snapshots
              /\ updates' = updates
              /\ update_counts' = update_counts ]_vars

\* A join was refused for the room limit while peers sit in the rooms.
C22_Witness ==
  /\ ev.kind = "text"
  /\ Len(calls) = 3
  /\ calls[3].fn = "get_or_create"
  /\ ~calls[3].found
  /\ ev.ws \notin open
  /\ Cardinality(NonEmptyRooms) = max_rooms

\* C23: a join whose get_or_create is for a project that has a room gets that
\* room, with the peers it had, however many rooms the registry holds: the
\* join succeeds, the set of rooms in the registry is as it was, the room
\* holds its former peers and the joiner, and every other room is as it was.
C23_ExistingRoomReturned ==
  [][ (JoinStep /\ Len(calls') >= 3 /\ calls'[3].project_id \in DOMAIN rooms)
        => LET w == ev'.ws
               p == calls'[3].project_id
           IN /\ calls'[3] = [fn |-> "get_or_create", project_id |-> p,
                               found |-> TRUE]
              /\ data'[w].authenticated
              /\ data'[w].project_id = p
              /\ DOMAIN rooms' = DOMAIN rooms
              /\ rooms'[p] = add_peer(rooms[p], w, data'[w].user_id)
              /\ \A q \in DOMAIN rooms \ {p} : rooms'[q] = rooms[q] ]_vars

\* A join into a room that had a peer succeeded while the registry holds
\* max_rooms rooms.
C23_Witness ==
  /\ JoinSucceeded
  /\ room_count(rooms) = max_rooms
  /\ Cardinality(DOMAIN rooms[data[ev.ws].project_id]) = 2

\* C26: a join message on a connection that has joined, whatever project and
\* token it names, is ignored: no collaborator is called (no verify, no
\* check_project_access), nothing is sent to anyone, the connection stays open
\* with the user and project it had, and every other connection's data, every
\* room, the registry and the store are as they were.  So the user and the
\* project of a connection change only in the handler of its own close (or of
\* its open, for a handle used again).
C26_JoinedIgnoresJoin ==
  [][ /\ (/\ LoopIdle
          /\ ev'.kind = "text"
          /\ decode_control(ev'.input).type = "join"
          /\ data[ev'.ws].authenticated)
        => /\ calls' = <<>>
           /\ sent' = NoneSent
           /\ open' = open
           /\ data' = data
           /\ rooms' = rooms
           /\ snapshots' = snapshots
           /\ updates' = updates
           /\ update_counts' = update_counts
      /\ \A w \in Conns :
           (data[w].authenticated /\ data'[w] # data[w])
             => /\ ev'.kind = "close"
                /\ ev'.ws = w
                /\ w \notin open' ]_vars

\* A connection in one room has sent a join for another project it may enter,
\* or one with a token that does not verify.
C26_Witness ==
  /\ ev.kind = "text"
  /\ ev.ws \in open
  /\ data[ev.ws].authenticated
  /\ ev.input \in { JsonObject("join", "P2", "tokU1"),
                     JsonObject("join", "P1", "tokBad") }
  /\ data[ev.ws].project_id = "P1"
  /\ data[ev.ws].user_id = "u1"

\* C28: when the append_update of an Update frame fails, the handler makes no
\* second append_update call, every other peer of the sender's room is sent
\* the frame and nothing else, nobody else (the sender included) is sent
\* anything (so no error message goes out), and the sender is still open,
\* authenticated and a peer of its room.
C28_FailedAppendSilent ==
  LET appends == CallsOf(calls, "append_update") IN
  (ev.kind = "binary" /\ appends # <<>> /\ ~appends[1].ok)
    => LET w == ev.ws
           S == data[w].project_id
       IN /\ Len(appends) = 1
          /\ Len(CallsOf(calls, "persist_update")) = 1
          /\ w \in open
          /\ data[w].authenticated
          /\ w \in DOMAIN rooms[S]
          /\ \A x \in Conns :
               sent[x] = IF x \in DOMAIN rooms[S] /\ x # w
                           THEN << BinaryMsg(ev.input) >> ELSE <<>>

\* The append of an Update frame failed in a room of two.
C28_Witness ==
  /\ ev.kind = "binary"
  /\ CallsOf(calls, "append_update") # <<>>
  /\ ~CallsOf(calls, "append_update")[1].ok
  /\ Cardinality(DOMAIN rooms[data[ev.ws].project_id]) = 2
  /\ \E x \in Conns : sent[x] = << BinaryMsg(<<2, 170, 187>>) >>

\* The open connections that joined project p, each with its user id.
JoinedTo(p) ==
  LET joined == {w \in open : data[w].authenticated /\ data[w].project_id = p}
  IN [w \in joined |-> data[w].user_id]

\* The peers of the room of project p; none when there is no room.
PeersOf(p) == IF p \in DOMAIN rooms THEN rooms[p] ELSE EmptyPeers

\* C33: between event handlers the peers of the room of every project P are
\* exactly the open authenticated connections whose project is P, each with
\* that connection's user id; so the room looked up for an authenticated
\* connection in the binary and close handlers is always there with the
\* connection in it, and what a handler sends to a connection other than its
\* own goes to an open, authenticated connection.
C33_PeersAreJoinedConns ==
  /\ \A p \in ProjectIds : PeersOf(p) = JoinedTo(p)
  /\ \A w \in open :
       data[w].authenticated
         => get(rooms, data[w].project_id) /\ w \in DOMAIN rooms[data[w].project_id]
  /\ \A w \in Conns \ {ev.ws} :
       sent[w] # <<>> => w \in open /\ data[w].authenticated

\* A close was handled in a room of two and the remaining peer was told,
\* while another connection is open and has not joined.
C33_Witness ==
  /\ ev.kind = "close"
  /\ ev.input.authenticated
  /\ \E w \in open :
       /\ data[w].authenticated
       /\ data[w].project_id = ev.input.project_id
       /\ sent[w] = << encode_peer_left(ev.input.user_id) >>
  /\ \E w \in open : ~data[w].authenticated

\* The other open connections on which user u is joined to project p.
OtherConnsOf(u, p, ws) ==
  {w \in open \ {ws} : /\ data[w].authenticated
                         /\ data[w].project_id = p
                         /\ data[w].user_id = u}

\* C34: the sender is left out, and a peer is kept, by connection handle and
\* not by user id.  When a user is joined to a project from two connections,
\* a binary frame sent on one is relayed to the other; and when one of them
\* closes, peer-left with the user's id is sent to every remaining peer, the
\* user's other connection included, and that connection is still a peer of
\* the room under the user's id.
C34_ByHandleNotUser ==
  /\ (ev.kind = "binary" /\ data[ev.ws].authenticated /\ Len(ev.input) >= 1)
       => \A w \in OtherConnsOf(data[ev.ws].user_id, data[ev.ws].project_id, ev.ws) :
            sent[w] = << BinaryMsg(ev.input) >>
  /\ (ev.kind = "close" /\ ev.input.authenticated)
       => /\ \A w \in OtherConnsOf(ev.input.user_id, ev.input.project_id, ev.ws) :
               /\ get(rooms, ev.input.project_id)
               /\ w \in DOMAIN rooms[ev.input.project_id]
               /\ rooms[ev.input.project_id][w] = ev.input.user_id
          /\ \A w \in DOMAIN PeersOf(ev.input.project_id) :
               sent[w] = << encode_peer_left(ev.input.user_id) >>

\* One of a user's two connections to a project has closed while a second
\* user is in the room too.
C34_Witness ==
  /\ ev.kind = "close"
  /\ ev.input.authenticated
  /\ OtherConnsOf(ev.input.user_id, ev.input.project_id, ev.ws) # {}
  /\ \E w \in DOMAIN PeersOf(ev.input.project_id) :
       rooms[ev.input.project_id][w] # ev.input.user_id

\* The calls that write a project's state to the store.
PersistenceWrites == {"persist_update", "append_update", "compact", "upsert_snapshot"}

\* C35: when the close of its last peer empties a room, a persistence write
\* for that project is issued by the close handler before the room is
\* removed from the registry.
C35_PersistBeforeDestroy ==
  ev.kind = "close"
    => \A i \in 1..Len(calls) :
         calls[i].fn = "remove_if_empty"
           => \E j \in 1..(i - 1) : /\ calls[j].fn \in PersistenceWrites
                                     /\ calls[j].project_id = calls[i].project_id

(***************************************************************************)
(* Properties of the persistence controller (checked under SpecPersist).   *)
(***************************************************************************)
\* The update rows the project held when compact was called are still stored.
OldUpdatesPresent == IsPrefix(cjob.old, updates[cjob.project_id])

\* The snapshot write of the current compact call has been performed and the
\* store accepted it.
NewSnapshotWritten == Len(cjob.log) >= 1 /\ cjob.upsert_ok

\* The effects of compact come in the order snapshot write, clear, reset.
CompactInOrder ==
  cjob.pc # "idle"
    => IsPrefix(cjob.log, << "upsert_snapshot", "clear_updates", "reset_counter" >>)

\* C6: at every point of a compact call, the effects performed so far are a
\* prefix of <<snapshot write, clear_updates, counter reset>> (each one has
\* returned before the next is issued), and, at whichever point compact is
\* stopped, the updates the project held when compact was called are still
\* stored whenever the new snapshot has not been written.
C6_OrderedAndRecoverable ==
  cjob.pc # "idle"
    => /\ IsPrefix(cjob.log, << "upsert_snapshot", "clear_updates", "reset_counter" >>)
       /\ ~NewSnapshotWritten => OldUpdatesPresent

\* C7: when upsert_snapshot answered false, the updates the project held when
\* compact was called are still stored after compact has returned.
C7_UpdatesKeptOnFailedWrite ==
  (cjob.pc = "done" /\ ~cjob.upsert_ok) => OldUpdatesPresent

\* C8: once compact(project, S) has returned, both store writes having
\* succeeded and no persist_update of that project having overlapped or
\* followed it, get_snapshot(project) is S, get_updates(project) is empty and
\* the project's counter is 0; and no step of compact changes the snapshot,
\* the updates or the counter of any other project.
C8_CompactResult ==
  /\ []( (cjob.pc = "done" /\ cjob.upsert_ok /\ cjob.clear_ok /\ ~cjob.interfered)
           => /\ get_snapshot(snapshots, cjob.project_id, TRUE)
                   = [has |-> TRUE, bytes |-> cjob.merged_state]
              /\ get_updates(updates, cjob.project_id, TRUE) = <<>>
              /\ update_counts[cjob.project_id] = 0 )
  /\ [][ (cjob.pc = "running" /\ cjob'.step = cjob.step + 1)
           => \A q \in ProjectIds \ {cjob.project_id} :
                /\ snapshots'[q] = snapshots[q]
                /\ updates'[q] = updates[q]
                /\ update_counts'[q] = update_counts[q] ]_vars

\* A compact of a project that held an update and a snapshot has returned with
\* both writes accepted and nothing interfering, while another project holds
\* an update of its own.
C8_Witness ==
  /\ cjob.pc = "done"
  /\ cjob.upsert_ok
  /\ cjob.clear_ok
  /\ ~cjob.interfered
  /\ cjob.old # <<>>
  /\ snapshots[cjob.project_id] = [has |-> TRUE, bytes |-> cjob.merged_state]
  /\ \E q \in ProjectIds \ {cjob.project_id} : updates[q] # <<>>

\* The step in which a persist_update call counts, and the step in which a
\* compact call resets the counter.
CountStep == pjob.pc = "appended" /\ pjob'.pc = "idle"
ResetStep ==
  cjob.pc = "running" /\ cjob.step = Len(compact_ops) /\ cjob'.step = cjob.step + 1

\* C24: the counter of a project grows by exactly one in each persist_update
\* call for that project, whether the append succeeded or not, is set to zero
\* by the last effect of a compact call for that project, and is left as it
\* was by every other step: a persist_update or a compact of another project,
\* the append of a persist_update, the store writes of a compact.
C24_CounterSteps ==
  [][ update_counts' =
        IF CountStep
          THEN [update_counts EXCEPT ![pjob.project_id] = @ + 1]
        ELSE IF ResetStep
          THEN [update_counts EXCEPT ![cjob.project_id] = 0]
        ELSE update_counts ]_vars

\* A compact call has reset the counter of its project while another project
\* has counted a persist_update whose append failed.
C24_Witness ==
  /\ cjob.pc = "done"
  /\ cjob.old # <<>>
  /\ update_counts[cjob.project_id] = 0
  /\ \E q \in ProjectIds \ {cjob.project_id} :
       update_counts[q] = 1 /\ updates[q] = <<>>

AppendedSinceCall ==
  LET rows == updates[cjob.project_id]
  IN IF IsPrefix(cjob.old, rows)
       THEN SubSeq(rows, Len(cjob.old) + 1, Len(rows))
       ELSE <<>>

IsSuffix(a, b) ==
  Len(a) <= Len(b) /\ SubSeq(b, Len(b) - Len(a) + 1, Len(b)) = a

\* C30: under every interleaving of a compact call with persist_update calls
\* for the same project, no step of the compact call removes a row that was
\* appended after the call was made (the merged state, produced before the
\* call, cannot hold it): such rows are still the last rows stored for the
\* project after the step, so get_updates returns them once compact is done.
C30_AppendedSurviveCompact ==
  [][ (cjob.pc = "running" /\ cjob'.step = cjob.step + 1)
        => IsSuffix(AppendedSinceCall, updates'[cjob.project_id]) ]_vars

\* No persist_update and no compact call is in progress.
Quiescent == pjob.pc = "idle" /\ cjob.pc \in {"idle", "done"}

\* C31: whenever no persist_update or compact call is in progress and every
\* store call has succeeded, the counter of each project equals the number of
\* update rows the store holds for it, however the persist_update calls were
\* interleaved with a compact of the same project.
C31_CounterMatchesStore ==
  Quiescent => \A p \in ProjectIds : update_counts[p] = Len(updates[p])

(***************************************************************************)
(* Properties of load_state (checked under SpecLoad).                      *)
(***************************************************************************)
\* The bytes of the rows, one after the other.
RECURSIVE Concat(_)
Concat(rows) == IF rows = <<>> THEN <<>> ELSE Head(rows) \o Concat(Tail(rows))

\* C14: when both store reads succeed, load_state returns the snapshot's bytes
\* (if there is a snapshot) followed by the bytes of every stored update in
\* ascending id order, and returns the empty value only when the project has
\* neither a snapshot nor an update; in particular it is non-empty for a
\* project with stored updates and no snapshot.
C14_LoadStateConcatenates ==
  (calls # <<>> /\ calls[1].fn = "load_state" /\ calls[1].snap_ok /\ calls[1].upd_ok)
    => LET p == calls[1].project_id
       IN /\ calls[1].state
               = (IF snapshots[p].has THEN snapshots[p].bytes ELSE <<>>)
                   \o Concat(updates[p])
          /\ calls[1].state = <<>> => (~snapshots[p].has /\ updates[p] = <<>>)

(***************************************************************************)
(* Properties of the binary codec (checked under SpecCodec).               *)
(***************************************************************************)
\* C17: for every type tag in {1, 2, 3} and every payload, the empty one
\* included, decode_binary of what encode_binary(type, payload) returned is
\* valid with that type, that payload and the payload's length; decode_binary
\* of a zero-length buffer is invalid.
C17_CodecRoundTrip ==
  /\ (Len(calls) = 2 /\ calls[2].fn = "decode_binary")
       => /\ calls[1].type \in {1, 2, 3}
          /\ calls[2].frame = calls[1].result
          /\ calls[2].result.valid
          /\ calls[2].result.type = calls[1].type
          /\ calls[2].result.payload = calls[1].data
          /\ calls[2].result.payload_len = Len(calls[1].data)
  /\ \A i \in DOMAIN calls :
       (calls[i].fn = "decode_binary" /\ calls[i].frame = <<>>)
         => ~calls[i].result.valid

\* An Awareness frame with an empty payload has been encoded and decoded back.
C17_Witness ==
  /\ Len(calls) = 2
  /\ calls[1].fn = "encode_binary"
  /\ calls[1].type = 3
  /\ calls[1].data = <<>>
  /\ calls[2].fn = "decode_binary"
  /\ calls[2].result.valid

\* C38: decode_binary of a non-empty frame whose first byte is none of 1, 2
\* and 3 is valid, its type is none of Sync, Update and Awareness (it is the
\* byte itself), and its payload is the bytes after the first; the
\* zero-length frame is the only one reported invalid.
C38_UnknownTagKept ==
  \A i \in DOMAIN calls :
    calls[i].fn = "decode_binary"
      => LET frame == calls[i].frame
             r == calls[i].result
         IN /\ (Len(frame) >= 1 /\ frame[1] \notin {1, 2, 3})
                 => /\ r.valid
                    /\ r.type \notin {1, 2, 3}
                    /\ r.type = frame[1]
                    /\ r.payload = Tail(frame)
                    /\ r.payload_len = Len(frame) - 1
            /\ ~r.valid <=> frame = <<>>

\* A frame of the unknown tag 255 and one more byte has been decoded.
C38_Witness ==
  /\ Len(calls) = 1
  /\ calls[1].fn = "decode_binary"
  /\ calls[1].frame = <<255, 170>>
  /\ calls[1].result.valid
  /\ calls[1].result.type = 255
  /\ calls[1].result.payload = <<170>>

(***************************************************************************)
(* Properties of Room (checked under SpecRoom).                            *)
(***************************************************************************)
\* C20: add_peer with a handle already in the room returns false and leaves
\* the peers as they were (same count, the user id registered first is kept);
\* remove_peer returns true exactly when the room has no peer after the call
\* (so removing the last peer returns true), it removes the handle and no
\* other, and remove_peer of a handle that is no peer leaves the peers as they
\* were.
C20_AddRemovePeer ==
  [][ LET c == calls'[1]
          before == rooms["P1"]
          after == rooms'["P1"]
      IN /\ (c.fn = "add_peer" /\ c.ws \in DOMAIN before)
              => /\ ~c.result
                 /\ after = before
                 /\ Cardinality(DOMAIN after) = Cardinality(DOMAIN before)
                 /\ after[c.ws] = before[c.ws]
         /\ (c.fn = "add_peer" /\ c.ws \notin DOMAIN before)
              => /\ c.result
                 /\ DOMAIN after = DOMAIN before \cup {c.ws}
                 /\ after[c.ws] = c.user_id
         /\ c.fn = "remove_peer"
              => /\ c.result <=> (DOMAIN after = {})
                 /\ DOMAIN before = {c.ws} => c.result
                 /\ DOMAIN after = DOMAIN before \ {c.ws}
                 /\ \A w \in DOMAIN after : after[w] = before[w]
                 /\ c.ws \notin DOMAIN before => after = before ]_vars

\* add_peer was called for a handle already in a room of two, with another
\* user id than the one registered, and returned false.
C20_Witness ==
  /\ calls # <<>>
  /\ calls[1].fn = "add_peer"
  /\ ~calls[1].result
  /\ Cardinality(DOMAIN rooms["P1"]) = 2
  /\ rooms["P1"][calls[1].ws] # calls[1].user_id

(***************************************************************************)
(* Properties of JwtVerifier (checked under SpecVerify).                   *)
(***************************************************************************)
VerifyCalled == calls # <<>> /\ calls[1].fn = "verify" /\ calls[1].token.dots = 2

\* The ES256 and the HS256 check of the token last verified, stated from the
\* keys held: an EC key is loaded and the signature is 64 bytes and a valid
\* ECDSA signature under it; the legacy secret is non-empty and the signature
\* is the HMAC-SHA256 under it.
EcdsaPasses ==
  /\ ec_pubkey # "none"
  /\ calls[1].token.sig.size = 64
  /\ calls[1].token.sig.ecdsa_key = ec_pubkey

HmacPasses ==
  /\ legacy_secret # ""
  /\ calls[1].token.sig.size = 32
  /\ calls[1].token.sig.hmac_secret = legacy_secret

\* The signature decision the header's alg asks for (HS256 when the header
\* does not parse or has no string alg).
SignatureAccepted ==
  LET h == calls[1].token.header
      alg == IF h.parsable /\ h.alg \notin {"<absent>", "<non-string>"}
               THEN h.alg ELSE "HS256"
  IN IF alg = "ES256" THEN EcdsaPasses
     ELSE IF alg = "HS256" THEN HmacPasses
     ELSE EcdsaPasses \/ HmacPasses

\* C18: for a token whose signature is accepted, verify rejects exactly when
\* the payload cannot be decoded (it does not parse, or a member read as a
\* string is none), the subject is empty or absent, or exp > 0 and the clock
\* is past exp; it accepts with exp = 0 and with the clock equal to exp, and
\* the claims returned are the payload's sub, role, exp and iat.  A token with
\* exp > 0 and the clock past exp is rejected whatever its signature.
C18_ClaimsDecision ==
  VerifyCalled
    => LET p == calls[1].token.payload
           r == calls[1].result
           undecodable == \/ ~p.parsable
                          \/ p.sub = "<non-string>"
                          \/ p.role = "<non-string>"
           subject == IF p.sub = "<absent>" THEN "" ELSE p.sub
           role == IF p.role = "<absent>" THEN "" ELSE p.role
           expired == p.exp > 0 /\ now > p.exp
       IN /\ SignatureAccepted
               => /\ r.ok <=> ~(undecodable \/ subject = "" \/ expired)
                  /\ r.ok => /\ r.sub = subject
                             /\ r.role = role
                             /\ r.exp = p.exp
                             /\ r.iat = p.iat
          /\ (p.parsable /\ expired) => ~r.ok

\* A token with an accepted signature and exp > 0 equal to the clock has been
\* accepted.
C18_Witness ==
  /\ VerifyCalled
  /\ SignatureAccepted
  /\ calls[1].token.payload.exp > 0
  /\ calls[1].token.payload.exp = now
  /\ calls[1].result.ok
  /\ calls[1].result.sub = "u1"

\* C19: for a header that parses with a string alg and a payload that decodes
\* to claims, verify accepts exactly when: alg = "ES256" and the ES256 check
\* passes (an HMAC is not looked at); alg = "HS256" and the HS256 check passes
\* (an ECDSA signature is not looked at); any other alg, the empty string
\* included, and either check passes.  Whatever the payload, a token is
\* rejected when that decision fails, and a token whose signature is the HMAC
\* under a secret other than the configured one is rejected.
C19_SignatureDecision ==
  (VerifyCalled /\ calls[1].token.header.parsable
     /\ calls[1].token.header.alg \notin {"<absent>", "<non-string>"})
    => LET t == calls[1].token
           r == calls[1].result
           alg == t.header.alg
           decision == IF alg = "ES256" THEN EcdsaPasses
                       ELSE IF alg = "HS256" THEN HmacPasses
                       ELSE EcdsaPasses \/ HmacPasses
           claimsOk == /\ t.payload.parsable
                       /\ t.payload.sub \notin {"", "<absent>", "<non-string>"}
                       /\ t.payload.role # "<non-string>"
                       /\ ~(t.payload.exp > 0 /\ now > t.payload.exp)
       IN /\ claimsOk => (r.ok <=> decision)
          /\ ~decision => ~r.ok
          /\ (t.sig.size = 32 /\ t.sig.hmac_secret # legacy_secret) => ~r.ok

\* A token whose header has the empty alg and whose signature is the HMAC
\* under the configured secret has been accepted while an EC key is loaded.
C19_Witness ==
  /\ VerifyCalled
  /\ calls[1].token.header.parsable
  /\ calls[1].token.header.alg = ""
  /\ calls[1].token.sig.hmac_secret = legacy_secret
  /\ ec_pubkey = "K1"
  /\ calls[1].result.ok

\* C37: when the header of the token has no alg member, or does not decode
\* or parse as JSON, verify takes the algorithm to be HS256: the HS256 check
\* alone decides, the ES256 check is not tried, so the token is rejected
\* unless its signature is the HMAC under the legacy secret, and with that
\* HMAC it is accepted exactly when its claims are valid.
C37_DefaultAlgIsHs256 ==
  (VerifyCalled /\ (~calls[1].token.header.parsable
                      \/ calls[1].token.header.alg = "<absent>"))
    => LET t == calls[1].token
           r == calls[1].result
           claimsOk == /\ t.payload.parsable
                       /\ t.payload.sub \notin {"", "<absent>", "<non-string>"}
                       /\ t.payload.role # "<non-string>"
                       /\ ~(t.payload.exp > 0 /\ now > t.payload.exp)
       IN /\ ~HmacPasses => ~r.ok
          /\ (HmacPasses /\ claimsOk) => r.ok
          /\ r.ok => claimsOk

\* A token whose header does not parse, with valid claims and a signature
\* that is a valid ECDSA signature under the loaded key, has been rejected.
C37_Witness ==
  /\ VerifyCalled
  /\ ~calls[1].token.header.parsable
  /\ EcdsaPasses
  /\ calls[1].token.payload.parsable
  /\ calls[1].token.payload.sub = "u1"
  /\ calls[1].token.payload.exp = 0
  /\ ~calls[1].result.ok

(***************************************************************************)
(* Properties of JwtVerifier from its construction on (checked under       *)
(* SpecJwks).                                                              *)
(***************************************************************************)
\* The construction left the verifier without a usable key: the fetch failed,
\* the body did not parse, or the document lists no EC P-256 key whose two
\* coordinates are 32 bytes of a point on the curve.
NoUsableKey ==
  LET answer == ev.input IN
  \/ answer.fetch # "ok"
  \/ answer.body # "keys_array"
  \/ \A i \in 1..Len(answer.keys) :
       ~(/\ answer.keys[i].kty = "EC"
         /\ answer.keys[i].crv = "P-256"
         /\ answer.keys[i].x = "c32"
         /\ answer.keys[i].y = "c32")

\* C36: when the key-set fetch or its parse failed at construction, or the
\* key set has no usable EC P-256 key, the verifier holds no EC key for its
\* whole lifetime: every token whose header says ES256 is rejected, a token
\* with any other alg is accepted only when the HS256 check passes, and a
\* token with alg HS256, the HMAC under the configured secret and valid claims
\* is accepted.
C36_Hs256OnlyMode ==
  (ev.kind = "construct" /\ NoUsableKey)
    => /\ ec_pubkey = "none"
       /\ VerifyCalled
            => LET t == calls[1].token
                   r == calls[1].result
                   says(alg) == t.header.parsable /\ t.header.alg = alg
                   claimsOk == /\ t.payload.parsable
                               /\ t.payload.sub \notin {"", "<absent>", "<non-string>"}
                               /\ t.payload.role # "<non-string>"
                               /\ ~(t.payload.exp > 0 /\ now > t.payload.exp)
               IN /\ says("ES256") => ~r.ok
                  /\ r.ok => HmacPasses
                  /\ (says("HS256") /\ HmacPasses /\ claimsOk) => r.ok

\* The document listed only a key with a coordinate one byte short, and the
\* verifier has accepted a token with alg HS256 and the HMAC under the
\* configured secret.
C36_Witness ==
  /\ ev.kind = "construct"
  /\ NoUsableKey
  /\ ev.input.fetch = "ok"
  /\ ev.input.body = "keys_array"
  /\ ev.input.keys = << Jwk("EC", "P-256", "c31", "c32") >>
  /\ VerifyCalled
  /\ calls[1].token.header.alg = "HS256"
  /\ HmacPasses
  /\ calls[1].result.ok

(***************************************************************************)
(* Properties of the relay over several frames (checked under SpecOrder).  *)
(***************************************************************************)
Increasing(s) == \A i, j \in 1..Len(s) : i < j => s[i] < s[j]

\* The step in which the frame of the event just handled reaches the sockets.
RelayDelivered ==
  (ev.kind = "binary" /\ ev' = NoEvent /\ data[ev.ws].authenticated)
    => LET S == data[ev.ws].project_id
       IN \A w \in Conns :
            IF w \in DOMAIN rooms[S] /\ w # ev.ws
              THEN wire'[w] = Append(wire[w], BinaryMsg(ev.input))
              ELSE wire'[w] = wire[w]

\* The step in which a handler takes an Update frame: the payload goes to the
\* end of the project's stored rows when the append succeeds.
AppendedInOrder ==
  (LoopIdle /\ ev'.kind = "binary" /\ data[ev'.ws].authenticated
     /\ ev'.input[1] = YjsUpdate)
    => LET S == data[ev'.ws].project_id
           appends == CallsOf(calls', "append_update")
       IN /\ Len(appends) = 1
          /\ updates' = IF appends[1].ok
                          THEN [updates EXCEPT ![S] = Append(@, Tail(ev'.input))]
                          ELSE updates

\* C16: relay is ordered. Frames are numbered in the order the server takes
\* them. Every socket is handed the relayed frames in ascending number, and a
\* frame is put behind everything a peer of the sender's session was handed
\* before, so a peer in the session at both times gets f1 before f2; the
\* stored update rows of every project are in ascending number, each appended
\* behind the rows stored before; and a handler starts only after the relay
\* and the append of the previous event are done.
C16_RelayOrdered ==
  /\ [](\A w \in Conns : Increasing(Relayed(wire[w])))
  /\ [](\A p \in ProjectIds : Increasing(Stored(p)))
  /\ [][RelayDelivered /\ AppendedInOrder]_vars
  /\ [][(ev' # NoEvent /\ ev' # ev) => (LoopIdle /\ sent = NoneSent)]_vars

\* Two frames went through one session: a peer was handed both and both were
\* stored.
C16_Witness ==
  /\ \E w \in Conns : Len(Relayed(wire[w])) = 2
  /\ \E p \in ProjectIds : Len(updates[p]) = 2

(***************************************************************************)
(* Properties of a join taken effect by effect (checked under SpecJoin).   *)
(***************************************************************************)
\* The effects the join being handled has performed so far.
EffectsDone ==
  [i \in 1..(Len(calls) - GateCalls) |-> calls[i + GateCalls].fn]

BinariesOf(msgs) == SelectSeq(msgs, LAMBDA m : m.op = "BINARY")

\* C21: at every point of a successful join, the effects performed so far are
\* a prefix of <<mark authenticated and register, send joined, broadcast
\* peer-joined, load the persisted state, send Sync>>: nothing is sent before
\* the connection is authenticated and a peer of the room; joined is the
\* first message the joiner is sent; the other peers have their peer-joined
\* before the state is loaded; no binary message is sent before the last
\* effect, and the joiner is then authenticated and a peer of the room (a
\* relay target), its Sync frame following joined.
C21_JoinEffectOrder ==
  (ev.kind = "text" /\ Len(calls) >= GateCalls)
    => LET w == ev.ws
           msg == decode_control(ev.input)
           p == msg.project_id
           u == verify(msg.token, now, ec_pubkey, legacy_secret).sub
           n == Len(EffectsDone)
           registered == /\ data[w] = [user_id |-> u, project_id |-> p,
                                        authenticated |-> TRUE]
                         /\ p \in DOMAIN rooms
                         /\ w \in DOMAIN rooms[p]
                         /\ rooms[p][w] = u
           loads == CallsOf(calls, "load_state")
       IN /\ IsPrefix(EffectsDone, << "register", "send_joined",
                                      "broadcast_peer_joined", "load_state",
                                      "send_sync" >>)
          /\ IF n = 0 THEN ~data[w].authenticated /\ sent = NoneSent
                      ELSE registered
          /\ IF n < 2 THEN sent[w] = <<>>
                      ELSE /\ sent[w][1].op = "TEXT"
                           /\ sent[w][1].type = "joined"
          /\ \A x \in Conns \ {w} :
               sent[x] = IF n >= 3 /\ x \in DOMAIN rooms[p]
                           THEN << encode_peer_joined(u) >> ELSE <<>>
          /\ n < 5 => \A x \in Conns : BinariesOf(sent[x]) = <<>>
          /\ n = 5 => sent[w] = << sent[w][1] >>
                                  \o (IF loads[1].state # <<>>
                                        THEN << BinaryMsg(<<YjsSync>> \o loads[1].state) >>
                                        ELSE <<>>)

\* A join into a room with a peer in it has sent joined, peer-joined and the
\* Sync frame of the stored snapshot.
C21_Witness ==
  /\ ev.kind = "text"
  /\ Len(calls) = GateCalls + 5
  /\ Len(sent[ev.ws]) = 2
  /\ sent[ev.ws][2].op = "BINARY"
  /\ \E x \in Conns \ {ev.ws} : sent[x] # <<>>

(***************************************************************************)
(* Properties of the access check (checked under SpecAccess).              *)
(***************************************************************************)
\* C27: access checking fails closed.  When the store does not answer the
\* access query of a join, answers with a status outside 2xx, or with a body
\* that is empty, does not parse or is no array, check_project_access returns
\* false whatever rows project_users holds: the join stops there, the
\* connection is sent exactly one error ACCESS_DENIED and closed without
\* having become authenticated, no other connection is sent anything, and
\* every room and the registry are as they were.
C27_AccessFailsClosed ==
  [][ (JoinStep /\ Len(calls') >= 2 /\ calls'[2].answer # "rows")
        => LET w == ev'.ws IN
           /\ ~calls'[2].result
           /\ Len(calls') = 2
           /\ sent'[w] = << encode_error("ACCESS_DENIED", "No access to this project") >>
           /\ \A x \in Conns \ {w} : sent'[x] = <<>>
           /\ w \notin open'
           /\ ~data'[w].authenticated
           /\ rooms' = rooms ]_vars

\* A user with a row for the project and a token that verifies was refused
\* because the store answered with an empty body; a peer sits in the room.
C27_Witness ==
  /\ ev.kind = "text"
  /\ Len(calls) = 2
  /\ calls[1].ok
  /\ calls[2].answer = "empty_body"
  /\ <<calls[2].project_id, calls[2].user_id>> \in project_users
  /\ ev.ws \notin open
  /\ calls[2].project_id \in NonEmptyRooms

(***************************************************************************)
(* Properties of the RoomManager's lock (checked under SpecRegistry).      *)
(***************************************************************************)
\* Thread t is between the lock_guard's constructor and the return.
InBody(t) == callers[t].pc \in {"locked", "found", "acted"}

\* C29: the operations of the RoomManager exclude each other.  No two threads
\* are in the body of an operation at the same time, and a thread in a body
\* holds the lock; the map changes only in the step of the thread holding the
\* lock; and from an operation's first access to the map to its return the
\* map is as that operation found it or left it, so every operation sees
\* the map wholly before or wholly after any other operation.
C29_RegistryExclusive ==
  /\ [](\A t \in Threads :
          InBody(t) => /\ mutex_ = t
                       /\ \A o \in Threads \ {t} : ~InBody(o))
  /\ [](\A t \in Threads : callers[t].pc = "found" => callers[t].seen = rooms)
  /\ [][ \A t \in Threads :
           /\ (callers[t].pc = "found" /\ callers'[t].pc = "found") => rooms' = rooms
           /\ (callers[t].pc = "acted" /\ callers'[t].pc = "acted") => rooms' = rooms
           /\ (rooms' # rooms /\ callers'[t] # callers[t]) => mutex_ = t ]_vars
  /\ [](Cardinality(DOMAIN rooms) <= max_rooms)

\* One thread is in the body of get_or_create for a project without a room,
\* the map looked up, while the other waits for the lock to remove or create
\* a room, the registry holding one room less than max_rooms.
C29_Witness ==
  \E t \in Threads, o \in Threads :
    /\ callers[t].pc = "found"
    /\ callers[t].op = "get_or_create"
    /\ callers[t].project_id \notin DOMAIN rooms
    /\ callers[o].pc = "lock"
    /\ callers[o].op \in {"get_or_create", "remove_if_empty"}
    /\ callers[o].project_id \notin {"", callers[t].project_id}
    /\ Cardinality(DOMAIN rooms) = max_rooms - 1

(***************************************************************************)
(* Properties of the sweep beside the handlers (checked under SpecSweep).  *)
(***************************************************************************)
\* The rooms a for_each in progress hands to its callback.
Swept(t) ==
  IF callers[t].op = "for_each" /\ callers[t].pc \in {"found", "acted"}
    THEN callers[t].seen ELSE [p \in {} |-> EmptyPeers]

\* C32: however a for_each sweep on the task's thread is interleaved with the
\* join and close handlers of the event loop, every room handed to the
\* callback has at least one peer: never a room get_or_create made that
\* add_peer has not filled yet, never one remove_peer emptied that
\* remove_if_empty has not removed yet.
C32_SweepSeesPeers ==
  \A t \in Threads : \A p \in DOMAIN Swept(t) : ~room_empty(Swept(t)[p])


(***************************************************************************)
(* Properties of remove_if_empty (checked under SpecRegistry).             *)
(***************************************************************************)
\* Thread t's remove_if_empty call acts on the map in this step.
RemoveIfEmptyActs(t) ==
  /\ callers[t].op = "remove_if_empty"
  /\ callers[t].pc = "found"
  /\ callers'[t].pc = "acted"

\* C39: remove_if_empty(project_id) removes the room exactly when there is one
\* for the project and it has no peers; when the room has a peer or there is
\* none, the registry is left as it was; a second call changes nothing more;
\* and the rooms of the other projects are never touched.
C39_RemoveIfEmpty ==
  [][ \A t \in Threads :
        RemoveIfEmptyActs(t)
          => LET p == callers[t].project_id
                 removable == p \in DOMAIN rooms /\ DOMAIN rooms[p] = {}
             IN /\ removable => p \notin DOMAIN rooms'
                /\ ~removable => rooms' = rooms
                /\ \A q \in ProjectIds \ {p} :
                     /\ q \in DOMAIN rooms' <=> q \in DOMAIN rooms
                     /\ q \in DOMAIN rooms => rooms'[q] = rooms[q]
                /\ remove_if_empty(rooms', p) = rooms' ]_vars

\* A remove_if_empty call found the empty room of its project beside the room
\* with a peer and has removed the one and kept the other.
C39_Witness ==
  \E t \in Threads :
    /\ callers[t].op = "remove_if_empty"
    /\ callers[t].pc = "acted"
    /\ callers[t].project_id \in DOMAIN callers[t].seen
    /\ callers[t].project_id \notin DOMAIN rooms
    /\ "P1" \in DOMAIN rooms
    /\ DOMAIN rooms["P1"] # {}


(***************************************************************************)
(* Properties of the control messages (checked under SpecControl).         *)
(***************************************************************************)
\* The text is no JSON, is JSON but no object, has no type that is a
\* non-empty string, or has a type other than ping and join.
Droppable(text) ==
  IF text.json # "object" THEN TRUE
  ELSE \/ text.type \in {"<absent>", "<non-string>", ""}
       \/ text.type \notin {"ping", "join"}

\* C40: a text message that is no valid JSON, is no JSON object, has no
\* non-empty string type, or has a type other than ping and join is dropped
\* in every state of the connection: nothing is sent to anyone (no reply, no
\* error), no collaborator is called, the connection stays open, and the
\* connection's data, the rooms, the registry and the store are as before.
C40_MalformedTextDropped ==
  [][ (LoopIdle /\ ev'.kind = "text" /\ Droppable(ev'.input))
        => /\ sent' = NoneSent
           /\ calls' = <<>>
           /\ open' = open
           /\ ev'.ws \in open'
           /\ data' = data
           /\ rooms' = rooms
           /\ snapshots' = snapshots
           /\ updates' = updates
           /\ update_counts' = update_counts ]_vars

\* An object without a type was received on a joined connection that has a
\* peer in its room, while another connection is open and has not joined.
C40_Witness ==
  /\ ev.kind = "text"
  /\ ev.input = JsonObject("<absent>", "P1", "tokU1")
  /\ data[ev.ws].authenticated
  /\ Cardinality(DOMAIN rooms[data[ev.ws].project_id]) = 2
  /\ \E w \in open : ~data[w].authenticated

====
